---- MODULE Spec2Model ----
(***************************************************************************)
(* A model of plexapi/base.py: the attribute-filter evaluator              *)
(* (_checkAttrs), the lazy reload engine of PlexObject / PlexPartialObject,*)
(* the batch-edit protocol, and the pagination loop of fetchItems with the *)
(* MediaContainer merge.                                                   *)
(*                                                                         *)
(* Python values are tagged tuples so that values of different Python      *)
(* types can be compared: <<"None">>, <<"bool", b>>, <<"int", n>>,         *)
(* <<"str", s>>, <<"list">> (the empty list).                              *)
(***************************************************************************)
EXTENDS Integers, Sequences, FiniteSets, TLC

VARIABLES
    qElem,      \* _checkAttrs: the element the filters are evaluated against
    qKwargs,    \* _checkAttrs: the filter kwargs, in dict (insertion) order
    qRes,       \* _checkAttrs: "pending", or the outcome "True" / "False" / "Error"
    obj,        \* the object under reload / field access
    userKeys,   \* USER_DONT_RELOAD_FOR_KEYS
    last,       \* history: the last operation on the object and its result
    editor,     \* the batch-edit state of an object, the edit sink and their history
    fetch,      \* one fetchItems call: its locals, the server and the requests issued
    merge,      \* a MediaContainer under extend(), the container merged last
    find,       \* one findItems call on a listing: its arguments and its result
    build,      \* one _buildItem call: the element, class and paths, and its result
    child       \* one _isChildOf call: the object, its ancestors, the kwargs, the result

qvars == <<qElem, qKwargs, qRes>>
ovars == <<obj, userKeys, last>>

vars == <<qElem, qKwargs, qRes, obj, userKeys, last, editor, fetch, merge, find, build, child>>

-----------------------------------------------------------------------------
(* Python values *)

None == <<"None">>
PyInt(n) == <<"int", n>>
PyStr(s) == <<"str", s>>
PyBool(b) == <<"bool", b>>
EmptyList == <<"list">>

IsNone(v) == v[1] = "None"
IsBool(v) == v[1] = "bool"
IsInt(v) == v[1] = "int"
IsStr(v) == v[1] = "str"

\* the number a bool or an int stands for in a comparison (True == 1, False == 0)
NumOf(v) == IF IsBool(v) THEN (IF v[2] THEN 1 ELSE 0) ELSE v[2]
IsNum(v) == IsBool(v) \/ IsInt(v)

\* Python ==
PyEq(a, b) ==
    IF IsNum(a) /\ IsNum(b) THEN NumOf(a) = NumOf(b)
    ELSE IF a[1] # b[1] THEN FALSE
    ELSE a = b

\* Python truthiness
Truthy(v) ==
    CASE IsNone(v) -> FALSE
      [] IsBool(v) -> v[2]
      [] IsInt(v) -> v[2] # 0
      [] IsStr(v) -> v[2] # ""
      [] OTHER -> FALSE

\* the strings of the model; str.lower() on them
Lower(s) ==
    CASE s = "X" -> "x"
      [] s = "Title" -> "title"
      [] s = "Media" -> "media"
      [] s = "Part" -> "part"
      [] s = "Video" -> "video"
      [] OTHER -> s

\* int(s) for the strings of the model; "Error" is ValueError
DigitStrings == {"0", "1", "2", "3", "01"}
ParseInt(s) ==
    CASE s = "0" -> 0
      [] s = "1" -> 1
      [] s = "01" -> 1
      [] s = "2" -> 2
      [] s = "3" -> 3
      [] OTHER -> -1

\* the place of a string in the code-point order of str.__lt__: the strings of
\* the model, sorted as Python sorts them
StrRank(s) ==
    LET sorted ==
        <<
           "", "/library/metadata/1", "/library/metadata/2", "/library/sections/1/all",
           "/status/sessions", "0", "01", "1", "2", "3", "Media", "Part", "Title",
           "Video", "X", "a", "artist", "b", "clip", "media", "movie", "part", "sd",
           "thumbBlurHash,artBlurHash", "title", "video", "x"
        >>
    IN  CHOOSE i \in 1..Len(sorted) : sorted[i] = s

-----------------------------------------------------------------------------
(* The query evaluator: OPERATORS, _getAttrOperator, _getAttrValue,        *)
(* _castAttrValue, _checkAttrs.                                            *)
(* A filter key "Media__videoCodec__gte" is the sequence of its segments   *)
(* between the "__" delimiters: <<"Media", "videoCodec", "gte">>.          *)
(* An element is [tag, attrib, children]; attrib is the sequence of        *)
(* <<name, value>> pairs in document order, children a sequence of         *)
(* elements.                                                               *)

\* the operators of OPERATORS whose operands the model represents, in table order
OPERATORS == <<"exact", "iexact", "ne", "gt", "gte", "lt", "lte", "exists">>

OperatorNames == {OPERATORS[i] : i \in 1..Len(OPERATORS)}

\* OPERATORS[op](v, q): "True", "False", or "Error" for the TypeError /
\* AttributeError the lambda raises on operands it does not support
Bool2Res(b) == IF b THEN "True" ELSE "False"

Comparable(v, q) == (IsNum(v) /\ IsNum(q)) \/ (IsStr(v) /\ IsStr(q))

Less(v, q) == IF IsNum(v) THEN NumOf(v) < NumOf(q) ELSE StrRank(v[2]) < StrRank(q[2])

ApplyOperator(op, v, q) ==
    CASE op = "exact" -> Bool2Res(PyEq(v, q))
      [] op = "iexact" -> IF IsStr(v) /\ IsStr(q) THEN Bool2Res(Lower(v[2]) = Lower(q[2]))
                          ELSE "Error"
      [] op = "ne" -> Bool2Res(~PyEq(v, q))
      [] op = "gt" -> IF Comparable(v, q) THEN Bool2Res(Less(q, v)) ELSE "Error"
      [] op = "gte" -> IF Comparable(v, q) THEN Bool2Res(~Less(v, q)) ELSE "Error"
      [] op = "lt" -> IF Comparable(v, q) THEN Bool2Res(Less(v, q)) ELSE "Error"
      [] op = "lte" -> IF Comparable(v, q) THEN Bool2Res(~Less(q, v)) ELSE "Error"
      [] op = "exists" -> IF Truthy(q) THEN Bool2Res(~IsNone(v)) ELSE Bool2Res(IsNone(v))

\* _getAttrOperator: [attr, op]; attr.endswith('__' + op) holds when the key has
\* at least two segments and the last one is op
EndsWithOp(key, op) == Len(key) >= 2 /\ key[Len(key)] = op

getAttrOperator(key) ==
    IF \E i \in 1..Len(OPERATORS) : EndsWithOp(key, OPERATORS[i])
    THEN LET i == CHOOSE j \in 1..Len(OPERATORS) :
                     /\ EndsWithOp(key, OPERATORS[j])
                     /\ \A k \in 1..(j - 1) : ~EndsWithOp(key, OPERATORS[k])
         IN  [attr |-> SubSeq(key, 1, Len(key) - 1), op |-> OPERATORS[i]]
    ELSE [attr |-> key, op |-> "exact"]

\* the first attribute whose name matches case-insensitively
AttribLookup(elem, attr) ==
    LET hits == {i \in 1..Len(elem.attrib) : Lower(elem.attrib[i][1]) = Lower(attr)}
    IN  IF hits = {} THEN <<>>
        ELSE <<elem.attrib[CHOOSE i \in hits : \A j \in hits : i <= j][2]>>

\* _getAttrValue(elem, attrstr, results). `results` is a list object shared with
\* the caller when passed (hasResults): the call returns [ret, res], the list it
\* returns and the contents of the shared list when it returns.
RECURSIVE getAttrValueRec(_, _, _, _)
RECURSIVE getAttrValueChildren(_, _, _, _, _)

getAttrValueChildren(children, i, attr, rest, R) ==
    IF i > Len(children) THEN R
    ELSE IF Lower(children[i].tag) = Lower(attr)
         THEN LET sub == getAttrValueRec(children[i], rest, R, TRUE)
              IN  getAttrValueChildren(children, i + 1, attr, rest, sub.res \o sub.ret)
         ELSE getAttrValueChildren(children, i + 1, attr, rest, R)

getAttrValueRec(elem, attrstr, results, hasResults) ==
    LET attr == Head(attrstr)
        rest == Tail(attrstr)
    IN  IF rest # <<>>
        THEN LET R == getAttrValueChildren(elem.children, 1, attr, rest,
                                           IF hasResults THEN results ELSE <<>>)
             IN  [ret |-> SelectSeq(R, LAMBDA r : ~IsNone(r)), res |-> R]
        ELSE IF Lower(attr) = "etag"
             THEN [ret |-> <<PyStr(elem.tag)>>, res |-> results]
             ELSE [ret |-> AttribLookup(elem, attr), res |-> results]

getAttrValue(elem, attrstr) == getAttrValueRec(elem, attrstr, <<>>, FALSE).ret

\* _castAttrValue: the cast value, or <<"Error">> for the ValueError of int()
castAttrValue(op, query, value) ==
    IF op = "exists" THEN value
    ELSE IF IsBool(query)
         THEN IF value[2] \in DigitStrings THEN PyBool(ParseInt(value[2]) # 0)
              ELSE <<"Error">>
    ELSE IF IsInt(query)
         THEN IF value[2] \in DigitStrings THEN PyInt(ParseInt(value[2]))
              ELSE <<"Error">>
    ELSE value

\* a special case that admits the operand None only
InNoneOnly(query) == PyEq(query, None)

\* `query in (None, 0, '')`
InNoneZeroEmpty(query) == PyEq(query, None) \/ PyEq(query, PyInt(0)) \/ PyEq(query, PyStr(""))

\* the inner loop of _checkAttrs over the extracted values: "True" at the first
\* value the operator accepts, "Error" when a cast or the operator raises first
RECURSIVE anyValueMatches(_, _, _, _)
anyValueMatches(values, i, op, query) ==
    IF i > Len(values) THEN "False"
    ELSE LET value == castAttrValue(op, query, values[i])
             r == IF value = <<"Error">> THEN "Error" ELSE ApplyOperator(op, value, query)
         IN  IF r = "False" THEN anyValueMatches(values, i + 1, op, query) ELSE r

\* _checkAttrs: kwargs is the sequence of <<key, operand>> in iteration order,
\* attrsFound the dict keyed by the key with its operator suffix stripped
RECURSIVE checkAttrsLoop(_, _, _, _)
checkAttrsLoop(elem, kwargs, i, attrsFound) ==
    IF i > Len(kwargs)
    THEN Bool2Res(\A a \in DOMAIN attrsFound : attrsFound[a])
    ELSE LET ao == getAttrOperator(kwargs[i][1])
             query == kwargs[i][2]
             values == getAttrValue(elem, ao.attr)
         IN  IF ao.op = "exact" /\ values = <<>> /\ InNoneZeroEmpty(query)
             THEN "True"
             ELSE LET r == anyValueMatches(values, 1, ao.op, query)
                  IN  IF r = "Error" THEN "Error"
                      ELSE checkAttrsLoop(elem, kwargs, i + 1,
                               [a \in (DOMAIN attrsFound) \cup {ao.attr} |->
                                   IF a = ao.attr THEN r = "True" ELSE attrsFound[a]])

checkAttrs(elem, kwargs) == checkAttrsLoop(elem, kwargs, 1, <<>>)

\* _isChildOf(**kwargs) (lines 188-193) from the i-th ancestor on. An ancestor is
\* [alive, truthy, data]: whether the weak reference to it still resolves,
\* whether it is true as a condition (an object is, a MediaContainer, which is a
\* list, only when it holds items) and its _data; the last ancestor has no
\* parent. The result is "True", "False", or "Error" when _checkAttrs raises.
RECURSIVE isChildOfFrom(_, _, _)
isChildOfFrom(chain, i, kwargs) ==
    IF i > Len(chain) THEN "False"
    ELSE IF ~chain[i].alive \/ ~chain[i].truthy THEN "False"
    ELSE LET r == checkAttrs(chain[i].data, kwargs)
         IN  IF r = "False" THEN isChildOfFrom(chain, i + 1, kwargs) ELSE r

\* self._isChildOf(**kwargs): `while obj` ends the walk at once for an object
\* that is not true as a condition
isChildOf(self, chain, kwargs) ==
    IF ~self.truthy THEN "False" ELSE isChildOfFrom(chain, 1, kwargs)

-----------------------------------------------------------------------------
(* Paths. A path string such as "/library/metadata/1?checkFiles=1" is          *)
(* <<"path", resource path, query>>, the query being the set of its            *)
(* <<name, value>> parameters; an attribute holding no path holds None.        *)

Path(p, q) == <<"path", p, q>>
IsPath(v) == v[1] = "path"

\* truthiness of a str-or-None path value
PathTruthy(v) == IsPath(v) /\ (v[2] # "" \/ v[3] # {})

\* `a or b` on path values
PathOr(a, b) == IF PathTruthy(a) THEN a ELSE b

\* urlparse(x).path: urlparse(None) gives the bytes result, whose path b'' equals no str
UrlPath(v) == IF IsPath(v) THEN <<"str", v[2]>> ELSE <<"bytes", "">>

\* set(parse_qsl(urlparse(x).query)): parse_qsl drops the parameters with a blank value
ParseQsl(v) == IF IsPath(v) THEN {kv \in v[3] : kv[2] # ""} ELSE {}

\* str(value) as urlencode applies it to the values a details key can carry
StrOf(v) ==
    CASE IsInt(v) -> (CASE v[2] = 0 -> "0" [] v[2] = 1 -> "1" [] v[2] = 2 -> "2" [] OTHER -> "3")
      [] IsBool(v) -> (IF v[2] THEN "True" ELSE "False")
      [] IsStr(v) -> v[2]
      [] OTHER -> "None"

\* PlexPartialObject._INCLUDES and _EXCLUDES, in declaration order
INCLUDES ==
    << <<"checkFiles", PyInt(0)>>, <<"includeAllConcerts", PyInt(0)>>,
       <<"includeBandwidths", PyInt(1)>>, <<"includeChapters", PyInt(1)>>,
       <<"includeChildren", PyInt(0)>>, <<"includeConcerts", PyInt(0)>>,
       <<"includeExternalMedia", PyInt(0)>>, <<"includeExtras", PyInt(0)>>,
       <<"includeFields", PyStr("thumbBlurHash,artBlurHash")>>,
       <<"includeGeolocation", PyInt(1)>>, <<"includeLoudnessRamps", PyInt(1)>>,
       <<"includeMarkers", PyInt(1)>>, <<"includeOnDeck", PyInt(0)>>,
       <<"includePopularLeaves", PyInt(0)>>, <<"includePreferences", PyInt(0)>>,
       <<"includeRelated", PyInt(0)>>, <<"includeRelatedCount", PyInt(0)>>,
       <<"includeReviews", PyInt(0)>>, <<"includeStations", PyInt(0)>> >>

EXCLUDES == <<"excludeElements", "excludeFields", "skipRefresh">>

\* `1 if value is True else value`
ParamValue(value) == IF value = PyBool(TRUE) THEN PyInt(1) ELSE value

\* `value not in [False, 0, '0']`
NotDisabled(value) ==
    ~(PyEq(value, PyBool(FALSE)) \/ PyEq(value, PyInt(0)) \/ PyEq(value, PyStr("0")))

\* _buildDetailsKey that builds the default parameters whatever the overrides
buildDetailsKeyOfDefaults(key, kwargs) ==
    LET inc == {<<INCLUDES[i][1], INCLUDES[i][2]>> : i \in 1..Len(INCLUDES)}
        incParams == {<<kv[1], StrOf(ParamValue(kv[2]))>> : kv \in {x \in inc : NotDisabled(x[2])}}
    IN  IF PathTruthy(key) /\ incParams # {} THEN Path(key[2], incParams) ELSE key

\* _buildDetailsKey(**kwargs) for an object whose key is `key`; kwargs is a
\* function from parameter names to values
buildDetailsKey(key, kwargs) ==
    LET inc == {<<INCLUDES[i][1],
                  IF INCLUDES[i][1] \in DOMAIN kwargs THEN kwargs[INCLUDES[i][1]]
                  ELSE INCLUDES[i][2]>> : i \in 1..Len(INCLUDES)}
        incParams == {<<kv[1], StrOf(ParamValue(kv[2]))>> : kv \in {x \in inc : NotDisabled(x[2])}}
        excNames == {EXCLUDES[i] : i \in 1..Len(EXCLUDES)} \cap DOMAIN kwargs
        excParams == {<<k, StrOf(ParamValue(kwargs[k]))>> : k \in {x \in excNames : ~IsNone(kwargs[x])}}
        params == IF PathTruthy(key) THEN incParams \cup excParams ELSE {}
    IN  IF params # {} THEN Path(key[2], params) ELSE key

\* isFullObject() comparing the resource paths only
isFullObjectPathOnly(key, details_key, initpath) ==
    LET parsed_key == PathOr(details_key, key)
    IN  \/ ~PathTruthy(key)
        \/ UrlPath(parsed_key) = UrlPath(initpath)

\* isFullObject() from the object's key, _details_key and _initpath
isFullObject(key, details_key, initpath) ==
    LET parsed_key == PathOr(details_key, key)
    IN  \/ ~PathTruthy(key)
        \/ /\ UrlPath(parsed_key) = UrlPath(initpath)
           /\ ParseQsl(parsed_key) \subseteq ParseQsl(initpath)

-----------------------------------------------------------------------------
(* Classes. PlexObjectMeta gives every class the union of the cached data    *)
(* properties of its bases and its own; a mixin without the metaclass gets   *)
(* its own from cached_data_property.__set_name__.                           *)

\* the classes of base.py and a variant with a session and a history flavour
Bases(cls) ==
    CASE cls = "PlexPartialObject" -> {"PlexObject"}
      [] cls = "Movie" -> {"PlexPartialObject"}
      [] cls = "MovieSession" -> {"PlexSession", "Movie"}
      [] cls = "MovieHistory" -> {"PlexHistory", "Movie"}
      [] OTHER -> {}

\* the properties a class body declares with @cached_data_property
OwnCached(cls) ==
    CASE cls = "PlexSession" -> {"player", "session", "transcodeSession", "user"}
      [] cls = "Movie" -> {"media"}
      [] OTHER -> {}

RECURSIVE cachedDataProperties(_)
cachedDataProperties(cls) ==
    UNION {cachedDataProperties(b) : b \in Bases(cls)} \cup OwnCached(cls)

RECURSIVE IsInstance(_, _)
IsInstance(cls, base) == cls = base \/ \E b \in Bases(cls) : IsInstance(b, base)

Variants == {"Movie", "MovieSession", "MovieHistory"}

AllCached == UNION {cachedDataProperties(c) : c \in Variants}

-----------------------------------------------------------------------------
(* Objects. An object is the record                                          *)
(*   cls            its class                                                *)
(*   initpath       _initpath                                                *)
(*   details_key    _details_key                                             *)
(*   data           _data, a node [id, attrib, media], NoNode for None       *)
(*   overwriteNone  _overwriteNone                                           *)
(*   autoReload     _autoReload                                              *)
(*   dict           the public fields in __dict__ (Missing: not in __dict__) *)
(*   memo           the cached data properties in __dict__ (Missing: unset)  *)
(* A node's id stands for the identity id(data) of the element.              *)

Missing == <<"missing">>

\* the mapping f written out key by key
RECURSIVE TableOn(_, _)
TableOn(f, S) ==
    IF S = {} THEN <<>>
    ELSE LET x == CHOOSE x \in S : TRUE
         IN  (x :> f[x]) @@ TableOn(f, S \ {x})

Table(f) == TableOn(f, DOMAIN f)

\* the fields _loadData assigns, in assignment order
LoadedFields == <<"key", "title", "sourceURI">>
FieldNames == {LoadedFields[i] : i \in 1..Len(LoadedFields)}

\* the field PlexSession._loadData assigns besides (line 1013); the fields of
\* all variants
SessionFields == <<"sessionKey">>
AllFields == FieldNames \cup {SessionFields[i] : i \in 1..Len(SessionFields)}

NoNode == [id |-> -1, attrib |-> Table([f \in AllFields |-> None]), media |-> FALSE]

\* utils.cast(int, value) of an attribute that is a string of the model or absent
castIntOfStr(v) == IF IsNone(v) THEN None ELSE PyInt(ParseInt(v[2]))

IsPrivate(attr) == attr \in {"_initpath", "_data", "_details_key", "_edits", "_overwriteNone"}

\* __setattr__ without the _overwriteNone escape: None never replaces a set field
setattrNeverNone(o, attr, value) ==
    IF ~IsNone(value) \/ IsPrivate(attr) \/ o.dict[attr] = Missing
    THEN [o EXCEPT !.dict[attr] = value]
    ELSE o

\* __setattr__(attr, value) on a public field
setattr(o, attr, value) ==
    IF ~IsNone(value) \/ IsPrivate(attr) \/ o.dict[attr] = Missing \/ o.overwriteNone
    THEN [o EXCEPT !.dict[attr] = value]
    ELSE o

\* _loadData(data): every field is assigned data.attrib.get(field)
RECURSIVE loadDataFrom(_, _, _)
loadDataFrom(o, data, i) ==
    IF i > Len(LoadedFields) THEN o
    ELSE loadDataFrom(setattr(o, LoadedFields[i], data.attrib[LoadedFields[i]]), data, i + 1)

\* _loadData(data) of the variant: the fields of the variant and, for a session
\* variant, those of PlexSession._loadData
loadData(o, data) ==
    LET o1 == loadDataFrom(o, data, 1)
    IN  IF IsInstance(o.cls, "PlexSession")
        THEN setattr(o1, "sessionKey", castIntOfStr(data.attrib["sessionKey"]))
        ELSE o1

\* _invalidateCachedProperties clearing only what the class body itself declares
invalidateOwnCachedProperties(o) ==
    [o EXCEPT !.memo = Table([p \in DOMAIN o.memo |->
                                 IF p \in OwnCached(o.cls) THEN Missing ELSE o.memo[p]])]

\* _invalidateCachedProperties
invalidateCachedProperties(o) ==
    [o EXCEPT !.memo = Table([p \in DOMAIN o.memo |->
                                 IF p \in cachedDataProperties(o.cls)
                                 THEN Missing ELSE o.memo[p]])]

\* _invalidateCacheAndLoadData(data)
invalidateCacheAndLoadData(o, data) ==
    LET old_data_id == o.data.id
        o1 == [o EXCEPT !.data = data]
        o2 == IF data.id # old_data_id THEN invalidateCachedProperties(o1) ELSE o1
    IN  loadData(o2, data)

\* self.key: the field in __dict__, else the class attribute key = None
KeyOf(o) == IF o.dict["key"] = Missing THEN None ELSE o.dict["key"]

IsFull(o) == isFullObject(KeyOf(o), o.details_key, o.initpath)

\* __init__(server, data, initpath) of class cls
Construct(cls, data, initpath, autoReload) ==
    LET o0 == [cls |-> cls,
               initpath |-> PathOr(initpath, None),
               details_key |-> None,
               data |-> data,
               overwriteNone |-> TRUE,
               autoReload |-> autoReload,
               dict |-> Table([f \in AllFields |-> Missing]),
               memo |-> Table([p \in AllCached |-> Missing])]
        o1 == IF data.id # NoNode.id THEN loadData(o0, data) ELSE o0
    IN  [o1 EXCEPT !.details_key = buildDetailsKey(KeyOf(o1), <<>>)]

\* _reload that does not record the path it loads from in _initpath
reloadKeepingInitpath(o, key, overwriteNone, kwargs, resp) ==
    LET details_key == IF DOMAIN kwargs # {} THEN buildDetailsKey(KeyOf(o), kwargs)
                       ELSE o.details_key
        k == PathOr(key, PathOr(details_key, KeyOf(o)))
        o2 == [o EXCEPT !.overwriteNone = overwriteNone]
        o3 == invalidateCacheAndLoadData(o2, resp.node)
    IN  IF ~PathTruthy(k) THEN [o |-> o, outcome |-> "Unsupported", nq |-> 0]
        ELSE IF resp.kind = "fail" THEN [o |-> o, outcome |-> "TransportError", nq |-> 1]
        ELSE IF resp.kind = "empty" THEN [o |-> o2, outcome |-> "IndexError", nq |-> 1]
        ELSE [o |-> [o3 EXCEPT !.overwriteNone = TRUE], outcome |-> "ok", nq |-> 1]

\* _reload that loads the response without ever allowing None to overwrite
reloadNeverOverwriting(o, key, overwriteNone, kwargs, resp) ==
    LET details_key == IF DOMAIN kwargs # {} THEN buildDetailsKey(KeyOf(o), kwargs)
                       ELSE o.details_key
        k == PathOr(key, PathOr(details_key, KeyOf(o)))
        o1 == [o EXCEPT !.initpath = k]
        o2 == [o1 EXCEPT !.overwriteNone = FALSE]
        o3 == invalidateCacheAndLoadData(o2, resp.node)
    IN  IF ~PathTruthy(k) THEN [o |-> o, outcome |-> "Unsupported", nq |-> 0]
        ELSE IF resp.kind = "fail" THEN [o |-> o1, outcome |-> "TransportError", nq |-> 1]
        ELSE IF resp.kind = "empty" THEN [o |-> o2, outcome |-> "IndexError", nq |-> 1]
        ELSE [o |-> [o3 EXCEPT !.overwriteNone = TRUE], outcome |-> "ok", nq |-> 1]

\* _reload that records the path in _initpath before it checks it
reloadCheckingKeyLate(o, key, overwriteNone, kwargs, resp) ==
    LET details_key == IF DOMAIN kwargs # {} THEN buildDetailsKey(KeyOf(o), kwargs)
                       ELSE o.details_key
        k == PathOr(key, PathOr(details_key, KeyOf(o)))
        o1 == [o EXCEPT !.initpath = k]
        o2 == [o1 EXCEPT !.overwriteNone = overwriteNone]
        o3 == invalidateCacheAndLoadData(o2, resp.node)
    IN  IF ~PathTruthy(k) THEN [o |-> o1, outcome |-> "Unsupported", nq |-> 0]
        ELSE IF resp.kind = "fail" THEN [o |-> o1, outcome |-> "TransportError", nq |-> 1]
        ELSE IF resp.kind = "empty" THEN [o |-> o2, outcome |-> "IndexError", nq |-> 1]
        ELSE [o |-> [o3 EXCEPT !.overwriteNone = TRUE], outcome |-> "ok", nq |-> 1]

\* A transport answer to query(key): "fail" (the transport raises), "empty" (a
\* container without children, so data[0] raises IndexError) or "ok" with the
\* first child `node`.
\* _reload(key, _overwriteNone, **kwargs) of PlexObject: [o, outcome, nq], the
\* object afterwards, "ok" or the exception raised, and the queries issued
reload(o, key, overwriteNone, kwargs, resp) ==
    LET details_key == IF DOMAIN kwargs # {} THEN buildDetailsKey(KeyOf(o), kwargs)
                       ELSE o.details_key
        k == PathOr(key, PathOr(details_key, KeyOf(o)))
        o1 == [o EXCEPT !.initpath = k]
        o2 == [o1 EXCEPT !.overwriteNone = overwriteNone]
        o3 == invalidateCacheAndLoadData(o2, resp.node)
    IN  IF ~PathTruthy(k) THEN [o |-> o, outcome |-> "Unsupported", nq |-> 0]
        ELSE IF resp.kind = "fail" THEN [o |-> o1, outcome |-> "TransportError", nq |-> 1]
        ELSE IF resp.kind = "empty" THEN [o |-> o2, outcome |-> "IndexError", nq |-> 1]
        ELSE [o |-> [o3 EXCEPT !.overwriteNone = TRUE], outcome |-> "ok", nq |-> 1]

\* PlexHistory._reload(**kwargs) (lines 1106-1108)
reloadHistory(o) == [o |-> o, outcome |-> "NotImplementedError", nq |-> 0]

\* self._reload(key=key, **kwargs) as PlexPartialObject.reload calls it: the
\* method of PlexHistory comes first in the bases of a history variant
reloadOf(o, key, kwargs, resp) ==
    IF IsInstance(o.cls, "PlexHistory") THEN reloadHistory(o)
    ELSE reload(o, key, TRUE, kwargs, resp)

\* the element of a node as _checkAttrs reads it: its attributes that are present
ElemOf(node) ==
    [tag |-> "Video",
     attrib |-> SelectSeq([i \in 1..Len(LoadedFields \o SessionFields) |->
                              <<(LoadedFields \o SessionFields)[i],
                                node.attrib[(LoadedFields \o SessionFields)[i]]>>],
                          LAMBDA a : ~IsNone(a[2])),
     children |-> <<>>]

\* str(self.sessionKey)
StrOfKey(v) == PyStr(StrOf(v))

\* _findAndLoadElem that loads every element of the data
RECURSIVE findAndLoadAnyElem(_, _, _, _)
findAndLoadAnyElem(o, data, kwargs, i) ==
    IF i > Len(data) THEN [o |-> o, loads |-> 0]
    ELSE LET r == findAndLoadAnyElem(invalidateCacheAndLoadData(o, data[i]), data, kwargs, i + 1)
         IN  [o |-> r.o, loads |-> r.loads + 1]

\* _findAndLoadElem(data, **kwargs) from the i-th element on (lines 558-562):
\* every element that satisfies the kwargs is loaded, in document order; `loads`
\* counts the loads
RECURSIVE findAndLoadElem(_, _, _, _)
findAndLoadElem(o, data, kwargs, i) ==
    IF i > Len(data) THEN [o |-> o, loads |-> 0]
    ELSE IF checkAttrs(ElemOf(data[i]), kwargs) = "True"
    THEN LET r == findAndLoadElem(invalidateCacheAndLoadData(o, data[i]), data, kwargs, i + 1)
         IN  [o |-> r.o, loads |-> r.loads + 1]
    ELSE findAndLoadElem(o, data, kwargs, i + 1)

\* PlexSession._reload() (lines 1064-1069): resp is the answer of the transport,
\* "fail" or "ok" with the children of the container; `queried` is the key of
\* the query
reloadSession(o, resp) ==
    LET key == o.initpath
        r == findAndLoadElem(o, resp.children,
                             << <<<<"sessionKey">>, StrOfKey(o.dict["sessionKey"])>> >>, 1)
    IN  IF resp.kind = "fail"
        THEN [o |-> o, outcome |-> "TransportError", nq |-> 1, queried |-> key, loads |-> 0]
        ELSE [o |-> r.o, outcome |-> "ok", nq |-> 1, queried |-> key, loads |-> r.loads]

\* the value a cached data property computes from the backing node: the list of
\* the Media children for media (findItems), the first matching child or None
\* for the properties of a session (findItem); a node with media = TRUE has a
\* child of every kind, a node with media = FALSE has none
Derived(prop, data) ==
    IF prop = "media" THEN (IF data.media THEN <<"objs", data.id>> ELSE EmptyList)
    ELSE (IF data.media THEN <<"obj", data.id>> ELSE None)

\* object.__getattribute__(attr): [o, value, outcome]; reading a cached data
\* property that is not in __dict__ computes and stores it
getRaw(o, attr) ==
    IF attr = "_initpath" THEN [o |-> o, value |-> o.initpath, outcome |-> "ok"]
    ELSE IF attr \in cachedDataProperties(o.cls)
    THEN IF o.memo[attr] # Missing THEN [o |-> o, value |-> o.memo[attr], outcome |-> "ok"]
         ELSE IF o.data.id = NoNode.id THEN [o |-> o, value |-> None, outcome |-> "AttributeError"]
         ELSE [o |-> [o EXCEPT !.memo[attr] = Derived(attr, o.data)],
               value |-> Derived(attr, o.data), outcome |-> "ok"]
    ELSE IF o.dict[attr] # Missing THEN [o |-> o, value |-> o.dict[attr], outcome |-> "ok"]
    ELSE IF attr = "key" THEN [o |-> o, value |-> None, outcome |-> "ok"]
    ELSE [o |-> o, value |-> None, outcome |-> "AttributeError"]

DONT_RELOAD_FOR_KEYS == {"key", "sourceURI"}

\* the early returns without the check of _autoReload
ReturnsAsIsIgnoringAutoReload(o, attr, value, user) ==
    \/ attr \in DONT_RELOAD_FOR_KEYS
    \/ attr \in user
    \/ attr = "_initpath"
    \/ ~(IsNone(value) \/ value = EmptyList)
    \/ IsFull(o)
    \/ IsInstance(o.cls, "PlexSession") \/ IsInstance(o.cls, "PlexHistory")

\* the early returns of PlexPartialObject.__getattribute__ (lines 619-625)
ReturnsAsIs(o, attr, value, user) ==
    \/ attr \in DONT_RELOAD_FOR_KEYS
    \/ attr \in user
    \/ attr = "_initpath"
    \/ ~(IsNone(value) \/ value = EmptyList)
    \/ IsFull(o)
    \/ IsInstance(o.cls, "PlexSession") \/ IsInstance(o.cls, "PlexHistory")
    \/ o.autoReload = FALSE

\* __getattribute__ whose reload lets None overwrite, as an explicit reload does
getattributeReloadingExplicitly(o, attr, user, resp) ==
    LET raw == getRaw(o, attr)
        r == reload(raw.o, None, TRUE, <<>>, resp)
        again == getRaw(r.o, attr)
    IN  IF raw.outcome # "ok" THEN [o |-> raw.o, value |-> None, outcome |-> raw.outcome, nq |-> 0]
        ELSE IF ReturnsAsIs(raw.o, attr, raw.value, user)
        THEN [o |-> raw.o, value |-> raw.value, outcome |-> "ok", nq |-> 0]
        ELSE IF r.outcome # "ok"
        THEN [o |-> r.o, value |-> None, outcome |-> r.outcome, nq |-> r.nq]
        ELSE [o |-> again.o, value |-> again.value, outcome |-> again.outcome, nq |-> r.nq]

\* PlexPartialObject.__getattribute__(attr): [o, value, outcome, nq]
getattribute(o, attr, user, resp) ==
    LET raw == getRaw(o, attr)
        r == reload(raw.o, None, FALSE, <<>>, resp)
        again == getRaw(r.o, attr)
    IN  IF raw.outcome # "ok" THEN [o |-> raw.o, value |-> None, outcome |-> raw.outcome, nq |-> 0]
        ELSE IF ReturnsAsIs(raw.o, attr, raw.value, user)
        THEN [o |-> raw.o, value |-> raw.value, outcome |-> "ok", nq |-> 0]
        ELSE IF r.outcome # "ok"
        THEN [o |-> r.o, value |-> None, outcome |-> r.outcome, nq |-> r.nq]
        ELSE [o |-> again.o, value |-> again.value, outcome |-> again.outcome, nq |-> r.nq]

-----------------------------------------------------------------------------
(* Editing. _edits is None outside batch mode and a dict of pending fields   *)
(* inside it; a dict is a function from field keys to values. The edit sink  *)
(* is section()._edit(items=self, **kwargs); the editor record keeps the     *)
(* number of sink calls and the fields of the latest one.                    *)

NoEdits == <<"None">>
Dict(d) == <<"dict", d>>
IsDict(e) == e[1] = "dict"

NoCall == <<"none">>
Call(kwargs) == <<"call", kwargs>>

\* dict.update(kwargs)
Update(d, kwargs) ==
    Table([k \in (DOMAIN d) \cup (DOMAIN kwargs) |->
              IF k \in DOMAIN kwargs THEN kwargs[k] ELSE d[k]])

\* utils.searchType(self._searchType) of the object
SearchType == <<"searchType", "movie">>

\* the kwargs the sink is called with: `type` is added when the caller gave none
WithType(kwargs) ==
    IF "type" \in DOMAIN kwargs THEN kwargs
    ELSE Update(kwargs, [k \in {"type"} |-> SearchType])

\* _edit(**kwargs) that applies an edit at once also in batch mode
editAlwaysApplying(e, kwargs) ==
    [e EXCEPT !.ncalls = @ + 1, !.call = Call(WithType(kwargs))]

\* _edit(**kwargs) that calls the sink in no mode
editNeverCalling(e, kwargs) ==
    IF IsDict(e.edits) THEN [e EXCEPT !.edits = Dict(Update(@[2], kwargs))] ELSE e

\* _edit(**kwargs): pending in batch mode, else one call of the sink
edit(e, kwargs) ==
    IF IsDict(e.edits) THEN [e EXCEPT !.edits = Dict(Update(@[2], kwargs))]
    ELSE [e EXCEPT !.ncalls = @ + 1, !.call = Call(WithType(kwargs))]

\* batchEdits()
batchEdits(e) == [e EXCEPT !.edits = Dict(<<>>)]

\* saveEdits() that leaves the pending edits in place
saveEditsKeepingEdits(e) ==
    IF ~IsDict(e.edits) THEN [e EXCEPT !.outcome = "BadRequest"]
    ELSE [edit(e, e.edits[2]) EXCEPT !.outcome = "ok"]

\* saveEdits(): its outcome is "ok" or the exception raised
saveEdits(e) ==
    IF ~IsDict(e.edits) THEN [e EXCEPT !.outcome = "BadRequest"]
    ELSE [edit([e EXCEPT !.edits = NoEdits], e.edits[2]) EXCEPT !.outcome = "ok"]

\* the editor of a new object: __init__ sets _edits = None; `before` is the
\* history of the state the last operation started from, `args` the kwargs of
\* the last operation if it was an edit(), `log` the kwargs of
\* the edits made since the last batchEdits(), `atBatch` the number of sink
\* calls when it was called, `mode` whether a batchEdits() was called and no
\* saveEdits() since
NewEditor ==
    [edits |-> NoEdits, ncalls |-> 0, call |-> NoCall, outcome |-> "ok", op |-> "init",
     log |-> <<>>, atBatch |-> 0, mode |-> FALSE, args |-> <<>>,
     before |-> [op |-> "init", mode |-> FALSE, ncalls |-> 0]]

EditorIdle == editor = NewEditor

\* MediaContainer(server, Element('MediaContainer')): no attribute is reported
EmptyContainer ==
    [items |-> <<>>, offset |-> None, size |-> None, totalSize |-> None,
     allowSync |-> None, augmentationKey |-> None, identifier |-> None,
     librarySectionID |-> None, librarySectionTitle |-> None,
     librarySectionUUID |-> None, mediaTagPrefix |-> None, mediaTagVersion |-> None]

\* what a first-match operation gives: nothing yet, an item, None or an exception
NoFirst == [kind |-> "none", item |-> <<>>, cls |-> "", attrs |-> <<>>]

NoFetch ==
    [pc |-> "idle", server |-> <<>>, hasTotal |-> FALSE, hasSize |-> FALSE,
     kwargs |-> <<>>, maxresults |-> None, container_start |-> None,
     container_size |-> None, offset |-> None, results |-> EmptyContainer, reqs |-> <<>>,
     failedAt |-> 0, raised |-> None, exc |-> None, totals |-> <<>>,
     args |-> <<>>, ekey |-> None, first |-> NoFirst]

FetchIdle == fetch = NoFetch

NoMerge ==
    [self |-> EmptyContainer, other |-> EmptyContainer, before |-> EmptyContainer, n |-> 0]

MergeIdle == merge = NoMerge

NoFind ==
    [pc |-> "idle", data |-> <<>>, kwargs |-> <<>>, err |-> FALSE, items |-> <<>>,
     first |-> NoFirst]

FindIdle == find = NoFind

NoBuild ==
    [pc |-> "idle", elem |-> <<>>, cls |-> None, initpath |-> None, selfpath |-> None,
     result |-> None]

BuildIdle == build = NoBuild

NoChild == [pc |-> "idle", self |-> <<>>, chain |-> <<>>, kwargs |-> <<>>, result |-> "none"]

ChildIdle == child = NoChild

-----------------------------------------------------------------------------
(* Specification of the object life cycle: construction, field reads,       *)
(* assignments, explicit reloads and direct loads of a backing node.         *)

KeyPath == Path("/library/metadata/1", {})
ListingPath == Path("/library/sections/1/all", {})
SessionsPath == Path("/status/sessions", {})
HistoryPath == Path("/status/sessions/history/all", {})

\* the nodes a response can carry under the identity id: a listing entry
\* without title and media, and a node with both
Nodes(id, keys) ==
    {[id |-> id,
      attrib |-> [key |-> k, title |-> tm[1], sourceURI |-> None, sessionKey |-> None],
      media |-> tm[2]] :
        k \in keys, tm \in {<<None, FALSE>>, <<PyStr("a"), TRUE>>}}

\* a response element is a new object: its identity differs from the backing node's
FreshId(o) == IF o.data.id = 0 THEN 1 ELSE 0

NoResponse == [kind |-> "none", node |-> NoNode]

\* the answers of the transport to one query
Responses(o) ==
    {[kind |-> "fail", node |-> NoNode], [kind |-> "empty", node |-> NoNode]}
    \cup {[kind |-> "ok", node |-> n] : n \in Nodes(FreshId(o), {KeyPath})}

\* the calls reload(key, **kwargs) of the model
ReloadArgs ==
    {<<None, <<>>>>, <<None, [k \in {"includeMarkers"} |-> PyBool(FALSE)]>>,
     <<None, [k \in {"checkFiles"} |-> PyBool(TRUE)]>>, <<KeyPath, <<>>>>}

ReadAttrs == {"key", "sourceURI", "title", "media", "player", "_initpath"}

\* class, constructing path, auto-reload setting and user exemptions of the object
Configs ==
    ({"Movie"} \X {None, ListingPath, KeyPath} \X {TRUE} \X {{}, {"title"}})
    \cup ({"Movie"} \X {None, ListingPath, KeyPath} \X {FALSE} \X {{}})
    \cup ({"MovieSession"} \X {SessionsPath} \X {TRUE} \X {{}})
    \cup ({"MovieHistory"} \X {HistoryPath} \X {TRUE} \X {{}})

\* what the history keeps of the object before an operation: its public fields,
\* its memoized properties, the identity of its backing node, whether it was FULL
Before(o) == [dict |-> o.dict, memo |-> o.memo, id |-> o.data.id, full |-> IsFull(o)]

IdleObject == Construct("Movie", NoNode, None, TRUE)

NoLast == [op |-> "init", attr |-> "", arg |-> None, raw |-> None, value |-> None,
           outcome |-> "ok", nq |-> 0, node |-> NoNode, old |-> Before(IdleObject)]

ObjectIdle ==
    /\ obj = IdleObject
    /\ userKeys = {}
    /\ last = NoLast

InitObject ==
    /\ \E c \in Configs, data \in {NoNode} \cup Nodes(0, {None, KeyPath}) :
          /\ obj = Construct(c[1], data, c[2], c[3])
          /\ userKeys = c[4]
    /\ last = [NoLast EXCEPT !.old = Before(obj)]

\* the record of an operation on obj: arg is the value or key passed, raw the
\* value a read found before any reload, node the node the operation loaded
Did(op, attr, arg, raw, value, outcome, nq, node) ==
    [op |-> op, attr |-> attr, arg |-> arg, raw |-> raw, value |-> value,
     outcome |-> outcome, nq |-> nq, node |-> node, old |-> Before(obj)]

Loaded(r, resp) == IF r.outcome = "ok" /\ r.nq > 0 THEN resp.node ELSE NoNode

\* value = obj.attr
Read(attr) ==
    /\ attr \in FieldNames \cup {"_initpath"} \cup cachedDataProperties(obj.cls)
    /\ \E resp \in (IF getattribute(obj, attr, userKeys, NoResponse).nq > 0
                    THEN Responses(obj) ELSE {NoResponse}) :
        LET r == getattribute(obj, attr, userKeys, resp)
        IN  /\ obj' = r.o
            /\ last' = Did("read", attr, None, getRaw(obj, attr).value, r.value, r.outcome, r.nq,
                            Loaded(r, resp))
    /\ UNCHANGED <<userKeys, qvars, editor, fetch, merge, find, build, child>>

\* obj.attr = value, by the caller
Assign(attr, value) ==
    /\ obj.data.id # NoNode.id
    /\ obj' = setattr(obj, attr, value)
    /\ last' = Did("assign", attr, value, None, None, "ok", 0, NoNode)
    /\ UNCHANGED <<userKeys, qvars, editor, fetch, merge, find, build, child>>

\* obj.reload(key, **kwargs) of PlexPartialObject; a session has a reload of
\* its own (line 1058)
Reload(key, kwargs) ==
    /\ ~IsInstance(obj.cls, "PlexSession")
    /\ \E resp \in (IF reloadOf(obj, key, kwargs, NoResponse).nq > 0
                    THEN Responses(obj) ELSE {NoResponse}) :
        LET r == reloadOf(obj, key, kwargs, resp)
        IN  /\ obj' = r.o
            /\ last' = Did("reload", "", <<key, kwargs>>, None, None, r.outcome, r.nq,
                            Loaded(r, resp))
    /\ UNCHANGED <<userKeys, qvars, editor, fetch, merge, find, build, child>>

\* obj._invalidateCacheAndLoadData(data) with the backing node itself or a new node
Load(data) ==
    /\ obj.data.id # NoNode.id
    /\ obj' = invalidateCacheAndLoadData(obj, data)
    /\ last' = Did("load", "", None, None, None, "ok", 0, data)
    /\ UNCHANGED <<userKeys, qvars, editor, fetch, merge, find, build, child>>

\* obj.isFullObject()
IsFullObjectCall ==
    /\ obj' = obj
    /\ last' = Did("isFullObject", "", None, None, PyBool(IsFull(obj)), "ok", 0, NoNode)
    /\ UNCHANGED <<userKeys, qvars, editor, fetch, merge, find, build, child>>

ReadAny == \E attr \in ReadAttrs : Read(attr)
AssignAny == \E value \in {None, PyStr("b")} : Assign("title", value)
ReloadAny == \E a \in ReloadArgs : Reload(a[1], a[2])
LoadAny == \E data \in {obj.data} \cup Nodes(FreshId(obj), {KeyPath}) : Load(data)

NextObject == ReadAny \/ AssignAny \/ ReloadAny \/ LoadAny \/ IsFullObjectCall

QueryIdle == qElem = <<>> /\ qKwargs = <<>> /\ qRes = "idle"

Init == InitObject /\ QueryIdle /\ EditorIdle /\ FetchIdle /\ MergeIdle /\ FindIdle /\ BuildIdle /\ ChildIdle

Spec == Init /\ [][NextObject]_vars

-----------------------------------------------------------------------------
(* Properties of the object life cycle *)

Absent(v) == IsNone(v) \/ v = EmptyList
NonNull(v) == v # Missing /\ ~IsNone(v)
IsEphemeral(o) == IsInstance(o.cls, "PlexSession") \/ IsInstance(o.cls, "PlexHistory")
HadKey == last.old.dict["key"] # Missing /\ PathTruthy(last.old.dict["key"])

\* the read found the attribute (object.__getattribute__ did not raise)
ReadFound == last.op = "read" /\ last.outcome # "AttributeError"

\* the value the object holds for a public attribute
Held(o, attr) == IF attr \in AllCached THEN o.memo[attr] ELSE o.dict[attr]

\* a read of an absent, public, non-exempt field of a PARTIAL object with a key
\* and auto-reload enabled
AbsentFieldRead ==
    /\ ReadFound
    /\ ~last.old.full
    /\ HadKey
    /\ obj.autoReload
    /\ last.attr \notin DONT_RELOAD_FOR_KEYS \cup userKeys \cup {"_initpath"}
    /\ Absent(last.raw)

ReloadsOnceThenFull ==
    /\ last.nq = 1
    /\ last.outcome = "ok" => (last.value = Held(obj, last.attr) /\ IsFull(obj))

FullReadsQuietly == (last.op = "read" /\ last.old.full) => (last.nq = 0 /\ IsFull(obj))

\* C2 as stated: reading an absent public non-exempt field of a PARTIAL object
\* with a key and auto-reload issues exactly one query and returns the
\* post-reload value, after which the object is FULL and reads issue no query
C2_AbsentReadReloadsOnce ==
    /\ AbsentFieldRead => ReloadsOnceThenFull
    /\ FullReadsQuietly

\* C2 amended: the same for an object that is neither a session nor a history
\* entry; on those the read returns the absent value and issues no query
C2_AbsentReadReloadsOnceUnlessEphemeral ==
    /\ (AbsentFieldRead /\ ~IsEphemeral(obj)) => ReloadsOnceThenFull
    /\ (AbsentFieldRead /\ IsEphemeral(obj)) => (last.nq = 0 /\ last.value = last.raw)
    /\ FullReadsQuietly

C2_Witness ==
    /\ AbsentFieldRead /\ ~IsEphemeral(obj)
    /\ last.nq = 1 /\ last.outcome = "ok"
    /\ Absent(last.value) /\ IsFull(obj)

\* the rule of the claim: same resource path, and every query parameter of the
\* details path is a parameter of the constructing path
ResourcePath(v) == IF IsPath(v) THEN v[2] ELSE ""
QueryParams(v) == IF IsPath(v) THEN v[3] ELSE {}
SamePathAndParams(o) ==
    LET details == PathOr(o.details_key, KeyOf(o))
    IN  /\ ResourcePath(details) = ResourcePath(o.initpath)
        /\ QueryParams(details) \subseteq QueryParams(o.initpath)

\* C4 as stated: isFullObject() is true iff the details path and the constructing
\* path have the same resource path and the details path's query parameters are
\* among the constructing path's, for objects with and without a key
C4_FullIffPathAndParams ==
    last.op = "isFullObject" => ((last.value = PyBool(TRUE)) <=> SamePathAndParams(obj))

\* C4 amended: the rule decides isFullObject() for an object that has a key; an
\* object without a key is always FULL
C4_FullIffPathAndParamsWithKey ==
    last.op = "isFullObject" =>
        IF PathTruthy(KeyOf(obj))
        THEN (last.value = PyBool(TRUE)) <=> SamePathAndParams(obj)
        ELSE last.value = PyBool(TRUE)

C4_Witness ==
    /\ last.op = "isFullObject" /\ PathTruthy(KeyOf(obj))
    /\ last.value = PyBool(FALSE)
    /\ ResourcePath(obj.details_key) = ResourcePath(obj.initpath)

\* the operation loaded a node through _invalidateCacheAndLoadData
LoadedNode == last.op \in {"read", "reload", "load"} /\ last.node # NoNode

Registered == cachedDataProperties(obj.cls)

\* C5: every load through _invalidateCacheAndLoadData replaces the backing node;
\* a different instance clears every cached field registered for the variant,
\* own and inherited, and the next access recomputes it from the new node (a
\* read that reloaded has already recomputed the field it read); the same
\* instance keeps every memoized value
C5_LoadInvalidatesCache ==
    /\ LoadedNode =>
          /\ obj.data = last.node
          /\ last.node.id # last.old.id =>
                \A p \in Registered :
                    IF last.op = "read" /\ p = last.attr
                    THEN obj.memo[p] = Derived(p, last.node)
                    ELSE obj.memo[p] = Missing
          /\ last.node.id = last.old.id => obj.memo = last.old.memo
    /\ (last.op = "read" /\ last.outcome = "ok" /\ last.attr \in Registered
          /\ last.nq = 0 /\ last.old.memo[last.attr] = Missing)
        => (last.value = Derived(last.attr, obj.data) /\ obj.memo[last.attr] = last.value)

\* a session object with a memoized inherited and an own property gets a new node
C5_Witness ==
    /\ last.op = "load" /\ obj.cls = "MovieSession"
    /\ last.node.id # last.old.id
    /\ last.old.memo["media"] # Missing /\ last.old.memo["player"] # Missing
    /\ obj.memo["media"] = Missing /\ obj.memo["player"] = Missing

\* the caller assigned None to a public field that held a non-null value
AssignedNoneOverValue ==
    /\ last.op = "assign" /\ IsNone(last.arg)
    /\ NonNull(last.old.dict[last.attr])

\* C8 as stated: outside the window of a reload, assigning None to a public
\* field that holds a non-null value never overwrites it, after construction and
\* after any sequence of completed reloads
C8_NoneNeverOverwrites ==
    AssignedNoneOverValue => obj.dict[last.attr] = last.old.dict[last.attr]

\* C8 amended: the field keeps its value only while _overwriteNone is False;
\* construction and every completed reload leave the flag True, and then the
\* assignment sets the field to None
C8_NoneOverwritesUnlessFlagOff ==
    /\ AssignedNoneOverValue =>
          IF obj.overwriteNone THEN IsNone(obj.dict[last.attr])
          ELSE obj.dict[last.attr] = last.old.dict[last.attr]
    /\ (last.op = "init" \/ (last.op \in {"read", "reload"} /\ last.outcome = "ok" /\ last.nq > 0))
        => obj.overwriteNone

C8_Witness ==
    /\ AssignedNoneOverValue
    /\ obj.overwriteNone
    /\ IsNone(obj.dict[last.attr])

\* C9: an explicit reload() sets to None every field for which the response
\* reports None, also one that held a non-null value before
C9_ReloadOverwritesWithNone ==
    (last.op = "reload" /\ last.outcome = "ok") =>
        \A f \in FieldNames : IsNone(last.node.attrib[f]) => IsNone(obj.dict[f])

C9_Witness ==
    /\ last.op = "reload" /\ last.outcome = "ok"
    /\ NonNull(last.old.dict["title"])
    /\ IsNone(last.node.attrib["title"])
    /\ IsNone(obj.dict["title"])

\* obj.reload(key, **kwargs) of an object without a key and without a details
\* path, called without a key, as a step
ReloadWithoutAnyKey ==
    /\ last'.op = "reload"
    /\ ~PathTruthy(last'.arg[1]) /\ ~PathTruthy(obj.details_key) /\ ~PathTruthy(KeyOf(obj))

\* C24: a reload of an object that has no key, no details path and is given no
\* key raises Unsupported, issues no query and leaves the object (constructing
\* path, backing node, fields and cached values) as it was
C24_ReloadWithoutKeyUnsupported ==
    [][ReloadWithoutAnyKey =>
          (last'.outcome = "Unsupported" /\ last'.nq = 0 /\ obj' = obj)]_vars

\* what holds instead: such a reload of an object that is not a history entry
\* raises Unsupported, issues no query and leaves the object as it was, and the
\* one of a history entry differs in the exception only
ReloadWithoutKeyUnlessHistory ==
    [][ReloadWithoutAnyKey =>
          /\ last'.outcome = IF IsInstance(obj.cls, "PlexHistory") THEN "NotImplementedError"
                             ELSE "Unsupported"
          /\ last'.nq = 0 /\ obj' = obj]_vars

\* a history entry without key and without details path was reloaded without a
\* key: NotImplementedError
KeylessHistoryReloaded ==
    /\ last.op = "reload" /\ last.outcome = "NotImplementedError" /\ last.nq = 0
    /\ IsNone(last.arg[1])
    /\ IsInstance(obj.cls, "PlexHistory")
    /\ ~PathTruthy(KeyOf(obj)) /\ ~PathTruthy(obj.details_key)

\* such a reload, with an include parameter, of an object built from a listing
\* entry without key whose media property has been computed
C24_Witness ==
    /\ last.op = "reload" /\ last.outcome = "Unsupported" /\ last.nq = 0
    /\ IsNone(last.arg[1]) /\ DOMAIN last.arg[2] # {}
    /\ obj.cls = "Movie" /\ IsNone(KeyOf(obj)) /\ IsNone(obj.details_key)
    /\ obj.initpath = ListingPath
    /\ obj.data.id # NoNode.id
    /\ obj.memo["media"] # Missing

\* C25: the reload of a history entry raises Unsupported, issues no query and
\* leaves the entry as it was
C25_HistoryReloadUnsupported ==
    (last.op = "reload" /\ IsInstance(obj.cls, "PlexHistory")) =>
        /\ last.outcome = "Unsupported"
        /\ last.nq = 0
        /\ obj.dict = last.old.dict /\ obj.memo = last.old.memo /\ obj.data.id = last.old.id

\* what the code does: the reload of a history entry raises NotImplementedError,
\* issues no query and leaves the entry as it was
HistoryReloadNotImplemented ==
    [][(last'.op = "reload" /\ IsInstance(obj.cls, "PlexHistory")) =>
          (last'.outcome = "NotImplementedError" /\ last'.nq = 0 /\ obj' = obj)]_vars

\* one of the cases of the claim: an exempt name, a private name, a value that
\* is neither None nor an empty list, a FULL object, a session or history
\* variant, auto-reload disabled
ExemptRead ==
    \/ last.attr \in {"key", "sourceURI"} \cup userKeys
    \/ IsPrivate(last.attr)
    \/ ~Absent(last.raw)
    \/ last.old.full
    \/ IsEphemeral(obj)
    \/ ~obj.autoReload

\* C10: a read in one of these cases issues no query and returns the current value
C10_ExemptReadsDoNotReload ==
    (ReadFound /\ ExemptRead) => (last.nq = 0 /\ last.value = last.raw /\ last.outcome = "ok")

\* an absent field of a PARTIAL object read with auto-reload disabled
C10_Witness ==
    /\ ReadFound /\ ~obj.autoReload
    /\ last.attr = "title" /\ Absent(last.raw) /\ ~last.old.full
    /\ last.nq = 0 /\ last.value = last.raw

-----------------------------------------------------------------------------
(* The inputs of the filter evaluation *)

MaxKeys == 2    \* the number of filter keys in one kwargs mapping

Element(tag, attrib, children) == [tag |-> tag, attrib |-> attrib, children |-> children]

Attr(name, values) == {<<>>} \cup {<<<<name, PyStr(v)>>>> : v \in values}

PartFile == Element("Part", <<<<"file", PyStr("x")>>>>, <<>>)
PartBare == Element("Part", <<>>, <<>>)
MediaOne == Element("Media", <<<<"videoCodec", PyStr("x")>>, <<"videoResolution", PyStr("2")>>>>,
                    <<PartFile>>)
MediaTwo == Element("Media", <<<<"videoCodec", PyStr("X")>>, <<"videoResolution", PyStr("sd")>>>>,
                    <<PartFile, PartBare>>)

QChildren == {<<>>, <<MediaOne>>, <<MediaTwo, MediaOne>>, <<MediaOne, MediaTwo>>}

QElems ==
    {Element("Video", t \o y \o g, c) :
        t \in Attr("Title", {"x"}), y \in Attr("year", {"2"}),
        g \in Attr("genre", {""}), c \in QChildren}

\* the filter keys of the model with the operands each is tried with
QPairs ==
    ({<<"title">>} \X {PyStr("x"), PyStr("X"), None})
    \cup ({<<"title", "iexact">>} \X {PyStr("X")})
    \cup ({<<"genre">>} \X {None, PyInt(0), PyStr(""), PyStr("x"), PyBool(FALSE)})
    \cup ({<<"genre", "exists">>} \X {PyBool(TRUE), PyBool(FALSE)})
    \cup ({<<"year">>} \X {PyInt(2), PyStr("2")})
    \cup ({<<"year", "gte">>} \X {PyInt(1), PyInt(2), PyInt(3)})
    \cup ({<<"year", "lte">>} \X {PyInt(1), PyInt(2)})
    \cup ({<<"Media", "videoCodec">>} \X {PyStr("x"), None})
    \cup ({<<"Media", "videoCodec", "iexact">>} \X {PyStr("x")})
    \cup ({<<"Media", "videoResolution">>} \X {PyInt(2), PyInt(3), PyStr("2")})
    \cup ({<<"Media", "Part", "file">>} \X {PyStr("x")})

\* kwargs: a dict, so its keys are distinct strings
QKwargsSet ==
    UNION {{kw \in [1..n -> QPairs] : \A i, j \in 1..n : i # j => kw[i][1] # kw[j][1]} :
              n \in 1..MaxKeys}

-----------------------------------------------------------------------------
(* Specification of the filter evaluation: one call of _checkAttrs *)

InitQuery ==
    /\ qElem \in QElems
    /\ qKwargs \in QKwargsSet
    /\ qRes = "pending"
    /\ ObjectIdle /\ EditorIdle /\ FetchIdle /\ MergeIdle /\ FindIdle /\ BuildIdle /\ ChildIdle

CheckAttrsCall ==
    /\ qRes = "pending"
    /\ qRes' = checkAttrs(qElem, qKwargs)
    /\ UNCHANGED <<qElem, qKwargs, ovars, editor, fetch, merge, find, build, child>>

NextQuery == CheckAttrsCall

SpecQuery == InitQuery /\ [][NextQuery]_vars

\* the outcome of one key of the mapping evaluated on its own
SingleKey(i) == checkAttrs(qElem, <<qKwargs[i]>>)

\* C1: _checkAttrs returns true iff every key of the mapping, evaluated on its
\* own against the node, is satisfied (logical AND across the keys)
C1_AndAcrossKeys ==
    (qRes # "pending" /\ \A i \in 1..Len(qKwargs) : SingleKey(i) # "Error")
        => ((qRes = "True") <=> \A i \in 1..Len(qKwargs) : SingleKey(i) = "True")

-----------------------------------------------------------------------------
(* Specification of the editing protocol: batchEdits(), edit() with kwargs   *)
(* and saveEdits() on one object, in any order.                              *)

MaxEdits == 3   \* the number of edits made after one batchEdits()
MaxCalls == 2   \* the number of calls of the edit sink

EditKeys == {"title.value", "summary.value", "type"}
EditValues == {PyStr("a"), PyStr("b")}

\* the kwargs of an edit: one field, or title and summary together
EditKwargs ==
    UNION {[{k} -> EditValues] : k \in EditKeys}
    \cup {[k \in {"title.value", "summary.value"} |-> PyStr("b")]}

Started(op) == [op |-> op, mode |-> editor.mode, ncalls |-> editor.ncalls]

InitEdit == ObjectIdle /\ QueryIdle /\ FetchIdle /\ MergeIdle /\ FindIdle /\ BuildIdle /\ ChildIdle /\ EditorIdle

BatchEditsCall ==
    /\ editor' = [batchEdits(editor) EXCEPT !.op = "batchEdits", !.outcome = "ok",
                      !.log = <<>>, !.atBatch = editor.ncalls, !.mode = TRUE, !.args = <<>>,
                      !.before = Started(editor.op)]
    /\ UNCHANGED <<qvars, ovars, fetch, merge, find, build, child>>

EditCall(kwargs) ==
    /\ IF IsDict(editor.edits) THEN Len(editor.log) < MaxEdits ELSE editor.ncalls < MaxCalls
    /\ editor' = [edit(editor, kwargs) EXCEPT !.op = "edit", !.outcome = "ok",
                      !.log = IF editor.mode THEN Append(@, kwargs) ELSE @,
                      !.args = kwargs,
                      !.before = Started(editor.op)]
    /\ UNCHANGED <<qvars, ovars, fetch, merge, find, build, child>>

SaveEditsCall ==
    /\ IsDict(editor.edits) => editor.ncalls < MaxCalls
    /\ editor' = [saveEdits(editor) EXCEPT !.op = "saveEdits", !.mode = FALSE,
                      !.args = <<>>,
                      !.before = Started(editor.op)]
    /\ UNCHANGED <<qvars, ovars, fetch, merge, find, build, child>>

EditAny == \E kwargs \in EditKwargs : EditCall(kwargs)

NextEdit == BatchEditsCall \/ EditAny \/ SaveEditsCall

SpecEdit == InitEdit /\ [][NextEdit]_vars

\* the field keys of the edits made since batchEdits(), and the value the
\* latest of them gives a key
LoggedKeys == UNION {DOMAIN editor.log[i] : i \in 1..Len(editor.log)}
LatestOf(k) ==
    LET i == CHOOSE i \in 1..Len(editor.log) :
                 /\ k \in DOMAIN editor.log[i]
                 /\ \A j \in (i + 1)..Len(editor.log) : k \notin DOMAIN editor.log[j]
    IN  editor.log[i][k]

SavedInBatchMode == editor.op = "saveEdits" /\ editor.before.mode

\* C6: after batchEdits(), n >= 0 edits followed by saveEdits() issue exactly
\* one call of the edit sink, made by saveEdits, and the call carries the union
\* of the fields of the n edits, with the latest value of a key edited twice
C6_BatchSavesOnce ==
    /\ editor.mode => editor.ncalls = editor.atBatch
    /\ SavedInBatchMode =>
          /\ editor.outcome = "ok"
          /\ editor.ncalls = editor.atBatch + 1
          /\ editor.ncalls = editor.before.ncalls + 1
          /\ editor.call # NoCall
          /\ \A k \in LoggedKeys : k \in DOMAIN editor.call[2] /\ editor.call[2][k] = LatestOf(k)
          /\ DOMAIN editor.call[2] \subseteq LoggedKeys \cup {"type"}

\* two edits of the same key with different values and one of another key, saved
C6_Witness ==
    /\ SavedInBatchMode /\ editor.outcome = "ok"
    /\ Len(editor.log) = 3
    /\ \E k \in DOMAIN editor.log[1] :
          k \in DOMAIN editor.log[3] /\ editor.log[1][k] # editor.log[3][k]
    /\ DOMAIN editor.log[2] # DOMAIN editor.log[1]
    /\ editor.ncalls = editor.atBatch + 1

\* C7: saveEdits() outside batch mode (no batchEdits() since construction or
\* since the last saveEdits()) raises BadRequest and calls no edit sink
C7_SaveOutsideBatchFails ==
    (editor.op = "saveEdits" /\ ~editor.before.mode) =>
        (editor.outcome = "BadRequest" /\ editor.ncalls = editor.before.ncalls)

\* a second saveEdits() right after a first one
C7_Witness ==
    /\ editor.op = "saveEdits" /\ editor.before.op = "saveEdits"
    /\ editor.outcome = "BadRequest"
    /\ editor.ncalls = editor.before.ncalls /\ editor.ncalls > 0

\* the last operation was an edit(**args), made in or outside batch mode
EditedInBatchMode == editor.op = "edit" /\ editor.before.mode
EditedAtOnce == editor.op = "edit" /\ ~editor.before.mode

\* C23: edit() calls the edit sink iff the object is not in batch mode: outside
\* batch mode it makes exactly one call, with its fields (and the type), and
\* leaves no pending edits; in batch mode it makes no call and the pending edits
\* are those of the edits since batchEdits(), its own fields included
C23_EditCallsSinkIffNotBatch ==
    /\ EditedAtOnce =>
          /\ editor.ncalls = editor.before.ncalls + 1
          /\ editor.edits = NoEdits
          /\ editor.call # NoCall
          /\ DOMAIN editor.call[2] = DOMAIN editor.args \cup {"type"}
          /\ \A k \in DOMAIN editor.args : editor.call[2][k] = editor.args[k]
    /\ EditedInBatchMode =>
          /\ editor.ncalls = editor.before.ncalls
          /\ IsDict(editor.edits)
          /\ DOMAIN editor.edits[2] = LoggedKeys
          /\ \A k \in LoggedKeys : editor.edits[2][k] = LatestOf(k)
          /\ \A k \in DOMAIN editor.args : editor.edits[2][k] = editor.args[k]

\* an edit outside batch mode after a saved batch: a second sink call, of the
\* one field of the edit and the type, and nothing pending
C23_Witness ==
    /\ EditedAtOnce /\ editor.before.op = "saveEdits"
    /\ editor.ncalls = 2 /\ editor.before.ncalls = 1
    /\ DOMAIN editor.args = {"title.value"}
    /\ DOMAIN editor.call[2] = {"title.value", "type"}
    /\ editor.edits = NoEdits

\* a second edit in batch mode: no call, two fields pending
C23_WitnessBatch ==
    /\ EditedInBatchMode /\ Len(editor.log) = 2
    /\ editor.ncalls = editor.atBatch
    /\ Cardinality(DOMAIN editor.edits[2]) = 2

-----------------------------------------------------------------------------
(* Pagination: fetchItems, findItems and MediaContainer. A response is the   *)
(* element [tag, attrib, children] of a MediaContainer whose attributes      *)
(* totalSize, size and offset are decimal strings or absent (None); an item  *)
(* is the object built from a child element and is identified with it.       *)

Min(a, b) == IF a <= b THEN a ELSE b

\* str(n) for n >= 0, as the sequence of its decimal digits, and int(s)
RECURSIVE Digits(_)
Digits(n) == IF n < 10 THEN <<n>> ELSE Digits(n \div 10) \o <<n % 10>>

DecStr(n) == <<"dec", Digits(n)>>

RECURSIVE DigitsValue(_)
DigitsValue(d) ==
    IF d = <<>> THEN 0 ELSE 10 * DigitsValue(SubSeq(d, 1, Len(d) - 1)) + d[Len(d)]

\* utils.cast(int, value) of an attribute
castInt(v) == IF IsNone(v) THEN None ELSE PyInt(DigitsValue(v[2]))

\* utils.PLEXOBJECTS: the dispatch keys registered in the model, "Video.movie"
\* as <<"Video", "movie">>
PLEXOBJECTS ==
    {<<"Video">>, <<"Video", "movie">>, <<"Directory", "show">>,
     <<"Video", "movie", "session">>, <<"Video", "movie", "history">>,
     <<"Stream", "1">>, <<"Tag", "2">>}

\* the tags PLEXOBJECTS knows a class for
KnownTags == {k[1] : k \in {x \in PLEXOBJECTS : Len(x) = 1}}

\* elem.attrib.get(name) on an element
ElemAttr(elem, name) ==
    LET hits == {i \in 1..Len(elem.attrib) : elem.attrib[i][1] = name}
    IN  IF hits = {} THEN None ELSE elem.attrib[CHOOSE i \in hits : TRUE][2]

\* the path strings of the model for which startswith('/status/sessions/history')
\* holds
HistoryPrefixed == {"/status/sessions/history", "/status/sessions/history/all"}

\* initpath.startswith('/status/sessions/history'): the query string follows the path
StartsWithHistory(initpath) == initpath[2] \in HistoryPrefixed

\* a dispatch key that prefers type to tagType to streamType
ehashTypeFirst(elem, initpath) ==
    LET byTag == IF ElemAttr(elem, "tagType") # None THEN ElemAttr(elem, "tagType")
                 ELSE ElemAttr(elem, "streamType")
        etype == IF ElemAttr(elem, "type") # None THEN ElemAttr(elem, "type") ELSE byTag
    IN  <<elem.tag>> \o (IF Truthy(etype) THEN <<etype[2]>> ELSE <<>>)
            \o (IF initpath = SessionsPath THEN <<"session">>
                ELSE IF StartsWithHistory(initpath) THEN <<"history">> ELSE <<>>)

\* the dispatch key _buildItem computes (lines 135-140) for an initpath that is
\* a str
ehash(elem, initpath) ==
    LET byTag == IF ElemAttr(elem, "tagType") # None THEN ElemAttr(elem, "tagType")
                 ELSE ElemAttr(elem, "type")
        etype == IF ElemAttr(elem, "streamType") # None THEN ElemAttr(elem, "streamType")
                 ELSE byTag
    IN  <<elem.tag>> \o (IF Truthy(etype) THEN <<etype[2]>> ELSE <<>>)
            \o (IF initpath = SessionsPath THEN <<"session">>
                ELSE IF StartsWithHistory(initpath) THEN <<"history">> ELSE <<>>)

\* a lookup of the dispatch key alone
getPlexObjectOfKey(key, default) == IF key \in PLEXOBJECTS THEN key ELSE None

\* utils.getPlexObject(ehash, default): the registered key that gives the class
getPlexObject(key, default) ==
    IF key \in PLEXOBJECTS THEN key
    ELSE IF default \in KnownTags THEN <<default>> ELSE None

\* the outcome of _buildItem: the object built, of the explicit class or of the
\* class registered under `key`, or the exception raised
Built(cls, elem, initpath, lookups) ==
    [kind |-> "obj", cls |-> cls, elem |-> elem, initpath |-> initpath, lookups |-> lookups]
Raised(exc, lookups) ==
    [kind |-> exc, cls |-> None, elem |-> <<>>, initpath |-> None, lookups |-> lookups]

\* self._buildItem(elem, cls, initpath) on an object whose _initpath is selfpath;
\* an explicit class is <<"class", name>>, lookups counts the calls of
\* getPlexObject, and None.startswith raises AttributeError
buildItem(selfpath, elem, cls, initpath) ==
    LET path == PathOr(initpath, selfpath)
        ecls == getPlexObject(ehash(elem, path), elem.tag)
    IN  IF ~IsNone(cls) THEN Built(cls, elem, path, 0)
        ELSE IF ~IsPath(path) THEN Raised("AttributeError", 0)
        ELSE IF ecls # None THEN Built(<<"registered", ecls>>, elem, path, 1)
        ELSE Raised("UnknownType", 1)

\* _buildItemOrNone(elem) is an item (not None, which an unknown type gives)
Builds(elem) == getPlexObject(ehash(elem, ListingPath), elem.tag) # None

\* data.attrib.get(name) on an attrib record
AttribGet(attrib, name) == IF name \in DOMAIN attrib THEN attrib[name] ELSE None

\* MediaContainer._loadData
loadContainer(data) ==
    [items |-> <<>>,
     allowSync |-> castInt(AttribGet(data.attrib, "allowSync")),
     augmentationKey |-> AttribGet(data.attrib, "augmentationKey"),
     identifier |-> AttribGet(data.attrib, "identifier"),
     librarySectionID |-> castInt(AttribGet(data.attrib, "librarySectionID")),
     librarySectionTitle |-> AttribGet(data.attrib, "librarySectionTitle"),
     librarySectionUUID |-> AttribGet(data.attrib, "librarySectionUUID"),
     mediaTagPrefix |-> AttribGet(data.attrib, "mediaTagPrefix"),
     mediaTagVersion |-> AttribGet(data.attrib, "mediaTagVersion"),
     offset |-> castInt(AttribGet(data.attrib, "offset")),
     size |-> castInt(AttribGet(data.attrib, "size")),
     totalSize |-> castInt(AttribGet(data.attrib, "totalSize"))]

\* the loop of findItems over the children from the i-th on: [err, items], the
\* items built from the children that pass _checkAttrs, err if a filter raises
RECURSIVE findItemsFrom(_, _, _)
findItemsFrom(children, kwargs, i) ==
    IF i > Len(children) THEN [err |-> FALSE, items |-> <<>>]
    ELSE LET ok == checkAttrs(children[i], kwargs)
             rest == findItemsFrom(children, kwargs, i + 1)
         IN  IF ok = "Error" THEN [err |-> TRUE, items |-> <<>>]
             ELSE IF ok = "True" /\ Builds(children[i])
             THEN [rest EXCEPT !.items = <<children[i]>> \o @]
             ELSE rest

\* findItems(data, cls=None, initpath, **kwargs) on a MediaContainer response:
\* [err, container]
findItems(data, kwargs) ==
    LET found == findItemsFrom(data.children, kwargs, 1)
    IN  [err |-> found.err,
         container |-> [loadContainer(data) EXCEPT !.items = found.items]]

\* return <item> / return None / raise NotFound(...) / an exception of the listing
FirstItem(item) == [NoFirst EXCEPT !.kind = "item", !.item = item]
ReturnsNone == [NoFirst EXCEPT !.kind = "None"]
RaisesNotFound(clsname, attrs) ==
    [NoFirst EXCEPT !.kind = "NotFound", !.cls = clsname, !.attrs = attrs]
Propagates == [NoFirst EXCEPT !.kind = "error"]

\* a first-match lookup that takes the last element of the listing
findItemLast(data, kwargs) ==
    LET r == findItems(data, kwargs)
    IN  IF r.err THEN Propagates
        ELSE IF r.container.items = <<>> THEN ReturnsNone
        ELSE FirstItem(r.container.items[Len(r.container.items)])

\* findItem(data, **kwargs) (lines 395-403): findItems(...)[0], None on IndexError
findItem(data, kwargs) ==
    LET r == findItems(data, kwargs)
    IN  IF r.err THEN Propagates
        ELSE IF r.container.items = <<>> THEN ReturnsNone
        ELSE FirstItem(r.container.items[1])

\* the attributes extend() fills in only if previously None (lines 1188-1197)
ProvenanceKeys ==
    {"allowSync", "augmentationKey", "identifier", "librarySectionID",
     "librarySectionTitle", "librarySectionUUID", "mediaTagPrefix", "mediaTagVersion"}

\* a merge that takes every provenance field of the merged container
extendOverwriting(self, other) ==
    [other EXCEPT !.items = self.items \o other.items]

\* a merge that appends the items of the merged container twice
extendAppendingTwice(self, other) ==
    [other EXCEPT !.items = self.items \o other.items \o other.items]

\* a merge that keeps the size of the container
extendKeepingSize(self, other) ==
    [self EXCEPT !.items = self.items \o other.items]

\* MediaContainer.extend(other) with another MediaContainer
extend(self, other) ==
    LET curr_size == IF ~IsNone(self.size) THEN self.size[2] ELSE Len(self.items)
    IN  [allowSync |-> IF IsNone(self.allowSync) THEN other.allowSync ELSE self.allowSync,
         augmentationKey |-> IF IsNone(self.augmentationKey) THEN other.augmentationKey
                             ELSE self.augmentationKey,
         identifier |-> IF IsNone(self.identifier) THEN other.identifier ELSE self.identifier,
         librarySectionID |-> IF IsNone(self.librarySectionID) THEN other.librarySectionID
                              ELSE self.librarySectionID,
         librarySectionTitle |-> IF IsNone(self.librarySectionTitle)
                                 THEN other.librarySectionTitle ELSE self.librarySectionTitle,
         librarySectionUUID |-> IF IsNone(self.librarySectionUUID)
                                THEN other.librarySectionUUID ELSE self.librarySectionUUID,
         mediaTagPrefix |-> IF IsNone(self.mediaTagPrefix) THEN other.mediaTagPrefix
                            ELSE self.mediaTagPrefix,
         mediaTagVersion |-> IF IsNone(self.mediaTagVersion) THEN other.mediaTagVersion
                             ELSE self.mediaTagVersion,
         items |-> self.items \o other.items,
         totalSize |-> IF ~IsNone(other.totalSize) THEN other.totalSize ELSE self.totalSize,
         size |-> PyInt(curr_size + (IF ~IsNone(other.size) THEN other.size[2]
                                     ELSE Len(other.items))),
         offset |-> IF ~IsNone(self.offset) /\ ~IsNone(other.offset)
                    THEN PyInt(Min(self.offset[2], other.offset[2]))
                    ELSE IF ~IsNone(self.offset) THEN self.offset ELSE other.offset]

X_PLEX_CONTAINER_SIZE == 100

\* the server's answer to a request with the headers X-Plex-Container-Start and
\* X-Plex-Container-Size: the elements with index in [start, start + size), the
\* offset, and the totalSize and size attributes if the server reports them
Respond(f, startHeader, sizeHeader) ==
    LET start == DigitsValue(startHeader[2])
        size == DigitsValue(sizeHeader[2])
        hi == Min(start + size, Len(f.server))
        elems == IF start + 1 > hi THEN <<>> ELSE SubSeq(f.server, start + 1, hi)
    IN  [tag |-> "MediaContainer",
         attrib |-> [offset |-> DecStr(start),
                     totalSize |-> IF f.hasTotal THEN DecStr(Len(f.server)) ELSE None,
                     size |-> IF f.hasSize THEN DecStr(Len(elems)) ELSE None],
         children |-> elems]

\* the exceptions self._server.query raises in the model
TransportErrors == {<<"exc", "BadRequest">>, <<"exc", "NotFound">>}

\* a failed query after which the call returns what it has accumulated
queryFailsReturningResults(f, e) ==
    [f EXCEPT !.pc = "done",
              !.reqs = Append(f.reqs, <<f.container_start[2], f.container_size[2]>>),
              !.failedAt = Len(f.reqs) + 1, !.raised = e]

\* one iteration of the loop in which self._server.query raises e (line 316):
\* nothing in fetchItems catches it, the call ends with e
queryFails(f, e) ==
    [f EXCEPT !.pc = "failed",
              !.reqs = Append(f.reqs, <<f.container_start[2], f.container_size[2]>>),
              !.failedAt = Len(f.reqs) + 1, !.raised = e, !.exc = e]

\* a total size that prefers the size attribute to totalSize
totalSizeOfSizeFirst(data, subresults) ==
    LET reported == castInt(IF ~IsNone(data.attrib.size) THEN data.attrib.size
                            ELSE data.attrib.totalSize)
    IN  IF Truthy(reported) THEN reported[2] ELSE Len(subresults)

\* total_size of line 318: utils.cast(int, totalSize or size) or len(subresults);
\* an attribute of a response is a string of digits, never empty, so `or` passes
\* over it only when it is absent, and a total of 0 gives way to len(subresults)
totalSizeOf(data, subresults) ==
    LET reported == castInt(IF ~IsNone(data.attrib.totalSize) THEN data.attrib.totalSize
                            ELSE data.attrib.size)
    IN  IF Truthy(reported) THEN reported[2] ELSE Len(subresults)

\* fetchItems up to the loop (lines 296-310): BadRequest when ekey is None, else
\* the defaults of container_start and container_size, the cap by maxresults,
\* the empty results container
fetchItemsEnter(f) ==
    LET start == IF Truthy(f.container_start) THEN f.container_start[2] ELSE 0
        size == IF Truthy(f.container_size) THEN f.container_size[2] ELSE X_PLEX_CONTAINER_SIZE
    IN  IF IsNone(f.ekey) THEN [f EXCEPT !.pc = "failed", !.exc = <<"exc", "BadRequest">>]
        ELSE
        [f EXCEPT !.pc = "loop",
                  !.container_start = PyInt(start),
                  !.container_size = PyInt(IF IsNone(f.maxresults) THEN size
                                           ELSE Min(size, f.maxresults[2])),
                  !.offset = PyInt(start),
                  !.results = EmptyContainer]

\* one iteration of the loop that never shrinks container_size
fetchPageKeepingSize(f) ==
    LET data == Respond(f, DecStr(f.container_start[2]), DecStr(f.container_size[2]))
        reqs == Append(f.reqs, <<f.container_start[2], f.container_size[2]>>)
        sub == findItems(data, f.kwargs)
        total_size == totalSizeOf(data, sub.container.items)
        results == extend(f.results, sub.container)
        container_start == f.container_start[2] + f.container_size[2]
        wanted == IF IsNone(f.maxresults) THEN total_size - f.offset[2]
                  ELSE Min(f.maxresults[2], total_size - f.offset[2])
    IN  IF sub.err THEN [f EXCEPT !.pc = "error", !.reqs = reqs]
        ELSE IF container_start > total_size
        THEN [f EXCEPT !.pc = "done", !.reqs = reqs, !.results = results,
                       !.totals = Append(f.totals, total_size),
                       !.container_start = PyInt(container_start)]
        ELSE [f EXCEPT !.pc = IF wanted <= Len(results.items) THEN "done" ELSE "loop",
                       !.reqs = reqs, !.results = results,
                       !.totals = Append(f.totals, total_size),
                       !.container_start = PyInt(container_start)]

\* one iteration of the loop that does not stop when it has the wanted items
fetchPageUntilPastTotal(f) ==
    LET data == Respond(f, DecStr(f.container_start[2]), DecStr(f.container_size[2]))
        reqs == Append(f.reqs, <<f.container_start[2], f.container_size[2]>>)
        sub == findItems(data, f.kwargs)
        total_size == totalSizeOf(data, sub.container.items)
        results == extend(f.results, sub.container)
        container_start == f.container_start[2] + f.container_size[2]
        wanted == IF IsNone(f.maxresults) THEN total_size - f.offset[2]
                  ELSE Min(f.maxresults[2], total_size - f.offset[2])
        container_size == IF IsNone(f.maxresults) THEN f.container_size[2]
                          ELSE Min(f.container_size[2], wanted - Len(results.items))
    IN  IF sub.err THEN [f EXCEPT !.pc = "error", !.reqs = reqs]
        ELSE IF container_start > total_size
        THEN [f EXCEPT !.pc = "done", !.reqs = reqs, !.results = results,
                       !.totals = Append(f.totals, total_size),
                       !.container_start = PyInt(container_start)]
        ELSE [f EXCEPT !.pc = "loop",
                       !.reqs = reqs, !.results = results,
                       !.totals = Append(f.totals, total_size),
                       !.container_start = PyInt(container_start),
                       !.container_size = PyInt(container_size)]

\* one iteration of the loop that advances the start by the shrunk page size
fetchPageAdvancingByNextSize(f) ==
    LET data == Respond(f, DecStr(f.container_start[2]), DecStr(f.container_size[2]))
        reqs == Append(f.reqs, <<f.container_start[2], f.container_size[2]>>)
        sub == findItems(data, f.kwargs)
        total_size == totalSizeOf(data, sub.container.items)
        results == extend(f.results, sub.container)
        wanted == IF IsNone(f.maxresults) THEN total_size - f.offset[2]
                  ELSE Min(f.maxresults[2], total_size - f.offset[2])
        container_size == IF IsNone(f.maxresults) THEN f.container_size[2]
                          ELSE Min(f.container_size[2], wanted - Len(results.items))
        container_start == f.container_start[2] + container_size
    IN  IF sub.err THEN [f EXCEPT !.pc = "error", !.reqs = reqs]
        ELSE IF container_start > total_size
        THEN [f EXCEPT !.pc = "done", !.reqs = reqs, !.results = results,
                       !.totals = Append(f.totals, total_size),
                       !.container_start = PyInt(container_start)]
        ELSE [f EXCEPT !.pc = IF wanted <= Len(results.items) THEN "done" ELSE "loop",
                       !.reqs = reqs, !.results = results,
                       !.totals = Append(f.totals, total_size),
                       !.container_start = PyInt(container_start),
                       !.container_size = PyInt(container_size)]

\* one iteration of the loop that goes on when it has exactly the wanted items
fetchPageStoppingPastWanted(f) ==
    LET data == Respond(f, DecStr(f.container_start[2]), DecStr(f.container_size[2]))
        reqs == Append(f.reqs, <<f.container_start[2], f.container_size[2]>>)
        sub == findItems(data, f.kwargs)
        total_size == totalSizeOf(data, sub.container.items)
        results == extend(f.results, sub.container)
        container_start == f.container_start[2] + f.container_size[2]
        wanted == IF IsNone(f.maxresults) THEN total_size - f.offset[2]
                  ELSE Min(f.maxresults[2], total_size - f.offset[2])
        container_size == IF IsNone(f.maxresults) THEN f.container_size[2]
                          ELSE Min(f.container_size[2], wanted - Len(results.items))
    IN  IF sub.err THEN [f EXCEPT !.pc = "error", !.reqs = reqs]
        ELSE IF container_start > total_size
        THEN [f EXCEPT !.pc = "done", !.reqs = reqs, !.results = results,
                       !.totals = Append(f.totals, total_size),
                       !.container_start = PyInt(container_start)]
        ELSE [f EXCEPT !.pc = IF wanted < Len(results.items) THEN "done" ELSE "loop",
                       !.reqs = reqs, !.results = results,
                       !.totals = Append(f.totals, total_size),
                       !.container_start = PyInt(container_start),
                       !.container_size = PyInt(container_size)]

\* one iteration of the loop of fetchItems (lines 312-342): a request, the merge
\* of its items into the results, and the decision to go on or to return; the
\* responses of the model carry no librarySectionID, so lines 324-327 do nothing
fetchPage(f) ==
    LET data == Respond(f, DecStr(f.container_start[2]), DecStr(f.container_size[2]))
        reqs == Append(f.reqs, <<f.container_start[2], f.container_size[2]>>)
        sub == findItems(data, f.kwargs)
        total_size == totalSizeOf(data, sub.container.items)
        results == extend(f.results, sub.container)
        container_start == f.container_start[2] + f.container_size[2]
        wanted == IF IsNone(f.maxresults) THEN total_size - f.offset[2]
                  ELSE Min(f.maxresults[2], total_size - f.offset[2])
        container_size == IF IsNone(f.maxresults) THEN f.container_size[2]
                          ELSE Min(f.container_size[2], wanted - Len(results.items))
    IN  IF sub.err THEN [f EXCEPT !.pc = "error", !.reqs = reqs]
        ELSE IF container_start > total_size
        THEN [f EXCEPT !.pc = "done", !.reqs = reqs, !.results = results,
                       !.totals = Append(f.totals, total_size),
                       !.container_start = PyInt(container_start)]
        ELSE [f EXCEPT !.pc = IF wanted <= Len(results.items) THEN "done" ELSE "loop",
                       !.reqs = reqs, !.results = results,
                       !.totals = Append(f.totals, total_size),
                       !.container_start = PyInt(container_start),
                       !.container_size = PyInt(container_size)]

-----------------------------------------------------------------------------
(* Specification of one fetchItems call against a server that holds a list  *)
(* of elements and answers every request with the page asked for.            *)

MaxTotal == 6     \* the number of elements the server holds (besides 25)
MaxSize == 4      \* the container_size passed (besides 20 and the default)
MaxStart == 2     \* the container_start passed
MaxResults == 3   \* the maxresults passed

\* the elements of the server: the i-th has ratingKey i, and year 2 if i is even
ServerOf(total) ==
    [i \in 1..total |->
        Element("Video",
                << <<"ratingKey", DecStr(i)>>,
                   <<"year", PyStr(IF i % 2 = 0 THEN "2" ELSE "1")>> >>,
                <<>>)]

Totals == (0..MaxTotal) \cup {25}
SizeArgs == {None} \cup {PyInt(n) : n \in (1..MaxSize) \cup {20}}
StartArgs == {None} \cup {PyInt(n) : n \in 0..MaxStart}
MaxResultsArgs == {None} \cup {PyInt(n) : n \in 0..MaxResults}
FetchKwargs == {<<>>, << <<<<"year">>, PyInt(2)>> >>}

\* a first-match fetch that gives None when nothing is found
fetchItemFirstOrNone(f) ==
    IF f.results.items = <<>> THEN ReturnsNone ELSE FirstItem(f.results.items[1])

\* the end of fetchItem (lines 365-371) once fetchItems has returned f.results with
\* cls=None: element 0, or NotFound with the class name and the kwargs it was given
fetchItemFirst(f) ==
    IF f.results.items = <<>>
    THEN RaisesNotFound("None", [filters |-> f.kwargs, paging |-> f.args])
    ELSE FirstItem(f.results.items[1])

\* f'/library/metadata/{ekey}' for the integer keys of the model
MetadataPath == [n \in {1, 2} |-> IF n = 1 THEN "/library/metadata/1" ELSE "/library/metadata/2"]

\* lines 363-364: an int ekey becomes a metadata path
fetchItemKey(ekey) == IF IsInt(ekey) THEN PyStr(MetadataPath[ekey[2]]) ELSE ekey

InitFetch ==
    /\ \E total \in Totals, size \in SizeArgs, start \in StartArgs,
          maxresults \in MaxResultsArgs, kwargs \in FetchKwargs,
          hasTotal \in BOOLEAN, hasSize \in BOOLEAN :
          fetch = [NoFetch EXCEPT !.pc = "call", !.server = ServerOf(total),
                                  !.hasTotal = hasTotal, !.hasSize = hasSize,
                                  !.kwargs = kwargs, !.maxresults = maxresults,
                                  !.container_start = start, !.container_size = size,
                                  !.args = <<start, size, maxresults>>]
    /\ ObjectIdle /\ QueryIdle /\ EditorIdle /\ MergeIdle /\ FindIdle /\ BuildIdle /\ ChildIdle

\* the keys fetchItems is called with
FetchKeys == {None, PyStr("/library/sections/1/all")}

FetchItemsCall ==
    /\ fetch.pc = "call"
    /\ \E ekey \in FetchKeys : fetch' = fetchItemsEnter([fetch EXCEPT !.ekey = ekey])
    /\ UNCHANGED <<qvars, ovars, editor, merge, find, build, child>>

FetchPage ==
    /\ fetch.pc = "loop"
    /\ \E e \in {None} \cup TransportErrors :
          fetch' = IF IsNone(e) THEN fetchPage(fetch) ELSE queryFails(fetch, e)
    /\ UNCHANGED <<qvars, ovars, editor, merge, find, build, child>>

NextFetch == FetchItemsCall \/ FetchPage

SpecFetch == InitFetch /\ [][NextFetch]_vars

\* the call of the claim has returned: start offset 0, no filter kwargs, no
\* maxresults, a server that holds T >= 1 items and reports totalSize
PlainFetchDone ==
    /\ fetch.pc = "done"
    /\ fetch.offset = PyInt(0)
    /\ fetch.kwargs = <<>>
    /\ IsNone(fetch.maxresults)
    /\ fetch.hasTotal
    /\ Len(fetch.server) >= 1

\* the page size S of the call and ceil(T / S)
PageSize == fetch.container_size[2]
PagesNeeded == (Len(fetch.server) + PageSize - 1) \div PageSize

\* C3: such a call issues exactly ceil(T/S) requests, with container starts
\* 0, S, 2S, ..., and returns a container of exactly the T items with offset 0
C3_PagesUntilTotal ==
    PlainFetchDone =>
        /\ Len(fetch.reqs) = PagesNeeded
        /\ \A i \in 1..Len(fetch.reqs) : fetch.reqs[i] = <<(i - 1) * PageSize, PageSize>>
        /\ fetch.results.items = fetch.server
        /\ fetch.results.offset = PyInt(0)

\* T = 25 and S = 20: two requests, at 0 and at 20, and 25 items
C3_Witness ==
    /\ PlainFetchDone
    /\ Len(fetch.server) = 25
    /\ fetch.reqs = << <<0, 20>>, <<20, 20>> >>
    /\ Len(fetch.results.items) = 25
    /\ fetch.results.offset = PyInt(0)

\* a call with maxresults = M >= 0
Capped == fetch.pc \in {"loop", "done"} /\ ~IsNone(fetch.maxresults)
Accumulated == Len(fetch.results.items)

\* the number of items the call wants when the server reports totalSize
WantedOfTotal == Min(fetch.maxresults[2], Len(fetch.server) - fetch.offset[2])

\* C11: with maxresults = M, every request (issued from a state inside the loop)
\* asks for at most M minus the items accumulated so far, the loop is left
\* after the first page at which the accumulated items reach the wanted count
\* (the wanted count is known once a page has reported the total), and the
\* returned container holds at most M items
C11_MaxResultsCapsRequests ==
    Capped =>
        /\ fetch.pc = "loop" =>
              /\ fetch.container_size[2] <= fetch.maxresults[2] - Accumulated
              /\ fetch.reqs # <<>> => Accumulated < fetch.maxresults[2]
              /\ fetch.reqs # <<>> /\ fetch.hasTotal => Accumulated < WantedOfTotal
        /\ \A i \in 1..Len(fetch.reqs) : fetch.reqs[i][2] <= fetch.maxresults[2]
        /\ Accumulated <= fetch.maxresults[2]

\* a second request shrunk to the items still wanted, and exactly M items returned
C11_Witness ==
    /\ Capped /\ fetch.pc = "done"
    /\ Len(fetch.reqs) = 2
    /\ fetch.reqs[2][2] < fetch.reqs[1][2]
    /\ fetch.reqs[2][2] = fetch.maxresults[2] - fetch.reqs[1][2]
    /\ Accumulated = fetch.maxresults[2]

\* C17: when fetchItems returns from a server that reports the constant
\* totalSize T on every page, the returned container holds at most as many
\* items as its totalSize
C17_ItemsWithinTotalSize ==
    (fetch.pc = "done" /\ fetch.hasTotal) =>
        /\ fetch.results.totalSize = PyInt(Len(fetch.server))
        /\ Len(fetch.results.items) <= fetch.results.totalSize[2]

\* several pages were merged and the container holds all T items
C17_Witness ==
    /\ fetch.pc = "done" /\ fetch.hasTotal
    /\ Len(fetch.reqs) >= 2
    /\ fetch.results.totalSize = PyInt(Len(fetch.server))
    /\ Len(fetch.results.items) = Len(fetch.server)
    /\ Len(fetch.server) > 0

\* the response to the i-th request of the call and the children of it that
\* pass the filters and are built
ResponseTo(i) == Respond(fetch, DecStr(fetch.reqs[i][1]), DecStr(fetch.reqs[i][2]))
MatchedIn(i) == findItems(ResponseTo(i), fetch.kwargs).container.items

\* C22: the total size of every page is the totalSize attribute of its response
\* when present, else its size attribute when present, else the number of its
\* children that matched the filters and were built
C22_TotalSizeTiers ==
    \A i \in 1..Len(fetch.totals) :
        fetch.totals[i] =
            IF ~IsNone(ResponseTo(i).attrib.totalSize)
            THEN DigitsValue(ResponseTo(i).attrib.totalSize[2])
            ELSE IF ~IsNone(ResponseTo(i).attrib.size)
            THEN DigitsValue(ResponseTo(i).attrib.size[2])
            ELSE Len(MatchedIn(i))

\* a filtered page without totalSize whose size attribute (4 children) is used,
\* although only 2 of the children matched
C22_Witness ==
    /\ Len(fetch.totals) >= 1
    /\ IsNone(ResponseTo(1).attrib.totalSize)
    /\ ResponseTo(1).attrib.size = DecStr(4)
    /\ Len(MatchedIn(1)) = 2
    /\ fetch.totals[1] = 4

\* a filtered page with neither attribute: the 2 matched of 4 children are used
C22_WitnessMatched ==
    /\ Len(fetch.totals) >= 1
    /\ IsNone(ResponseTo(1).attrib.totalSize) /\ IsNone(ResponseTo(1).attrib.size)
    /\ Len(ResponseTo(1).children) = 4
    /\ fetch.totals[1] = 2

\* C18: when the transport call of a page fails, the call ends with the
\* failure the transport raised: the failed request is the last one issued (no
\* further request, no retry) and no container is returned
C18_TransportFailurePropagates ==
    fetch.failedAt # 0 =>
        /\ fetch.pc = "failed"
        /\ fetch.exc = fetch.raised /\ fetch.exc \in TransportErrors
        /\ Len(fetch.reqs) = fetch.failedAt

\* the second page fails after the first one delivered items
C18_Witness ==
    /\ fetch.pc = "failed" /\ fetch.failedAt = 2
    /\ Len(fetch.results.items) > 0
    /\ fetch.exc = <<"exc", "NotFound">>

-----------------------------------------------------------------------------
(* Properties of one predicate: a mapping of a single key                    *)

\* the call had one key; its attribute path, operator and operand
OnePredicate == qRes # "pending" /\ Len(qKwargs) = 1
TheAttr == getAttrOperator(qKwargs[1][1]).attr
TheOp == getAttrOperator(qKwargs[1][1]).op
TheOperand == qKwargs[1][2]

\* the key names an attribute of the node itself
OwnAttribute == OnePredicate /\ Len(TheAttr) = 1
AttrAbsent == AttribLookup(qElem, TheAttr[1]) = <<>>
AttrEmpty == AttribLookup(qElem, TheAttr[1]) = <<PyStr("")>>

\* C12: on a node without the attribute a single exact predicate is satisfied
\* for the operands None, 0 and "" and not satisfied for a non-empty string;
\* an attribute present with the value "" is not absent: the operand None is
\* then not satisfied
C12_AbsentAttributeExact ==
    (OwnAttribute /\ TheOp = "exact") =>
        /\ AttrAbsent /\ TheOperand \in {None, PyInt(0), PyStr("")} => qRes = "True"
        /\ AttrAbsent /\ IsStr(TheOperand) /\ TheOperand # PyStr("") => qRes = "False"
        /\ AttrEmpty /\ IsNone(TheOperand) => qRes = "False"
        /\ AttrEmpty /\ TheOperand = PyStr("") => qRes = "True"

\* the operand 0 on a node without the attribute
C12_Witness ==
    /\ OwnAttribute /\ TheOp = "exact" /\ AttrAbsent
    /\ TheOperand = PyInt(0) /\ qRes = "True"

\* C13: attr__exists with a truthy operand is satisfied iff the attribute is
\* present on the node, and with a falsy operand iff it is not present
C13_ExistsIffPresent ==
    (OwnAttribute /\ TheOp = "exists") =>
        ((qRes = "True") <=> (Truthy(TheOperand) <=> ~AttrAbsent))

\* the values the key's path extracts from the node
TheValues == getAttrValue(qElem, TheAttr)

\* value i, cast to the operand's type, satisfies the operator
ValueSatisfies(i) ==
    LET value == castAttrValue(TheOp, TheOperand, TheValues[i])
    IN  value # <<"Error">> /\ ApplyOperator(TheOp, value, TheOperand) = "True"

\* C14: a predicate whose path extracts several values is satisfied iff at
\* least one extracted value, cast to the operand's type, satisfies the operator
C14_AnyValueSatisfies ==
    (OnePredicate /\ Len(TheValues) >= 2) =>
        ((qRes = "True") <=> \E i \in 1..Len(TheValues) : ValueSatisfies(i))

-----------------------------------------------------------------------------
(* Specification of merging: a MediaContainer built from a response is       *)
(* extended with containers built from further responses.                    *)

MaxMerges == 2  \* the number of extend() calls on one container

\* the provenance attributes a response of the model carries: none, those of
\* one library section, or some of them with other values
Provenance ==
    {[identifier |-> None],
     [identifier |-> PyStr("a"), augmentationKey |-> PyStr("a"),
      librarySectionTitle |-> PyStr("a"), librarySectionUUID |-> PyStr("a"),
      mediaTagPrefix |-> PyStr("a"), mediaTagVersion |-> PyStr("a"),
      allowSync |-> DecStr(0), librarySectionID |-> DecStr(1)],
     [identifier |-> PyStr("b"), mediaTagVersion |-> PyStr("b"),
      allowSync |-> DecStr(1), librarySectionID |-> DecStr(2)]}

\* the MediaContainer responses of the model
MergeData ==
    {[tag |-> "MediaContainer",
      attrib |-> [offset |-> o, size |-> z] @@ pr,
      children |-> c] :
        o \in {None, DecStr(0), DecStr(2)}, z \in {None, DecStr(2)},
        pr \in Provenance, c \in {<<>>, ServerOf(1)}}

\* the container findItems builds from a response
ContainerOf(data) == findItems(data, <<>>).container

InitMerge ==
    /\ \E data \in MergeData :
          merge = [self |-> ContainerOf(data), other |-> EmptyContainer,
                   before |-> EmptyContainer, n |-> 0]
    /\ ObjectIdle /\ QueryIdle /\ EditorIdle /\ FetchIdle /\ FindIdle /\ BuildIdle /\ ChildIdle

\* self.extend(other)
ExtendCall ==
    /\ merge.n < MaxMerges
    /\ \E data \in MergeData :
          merge' = [self |-> extend(merge.self, ContainerOf(data)),
                    other |-> ContainerOf(data),
                    before |-> merge.self, n |-> merge.n + 1]
    /\ UNCHANGED <<qvars, ovars, editor, fetch, find, build, child>>

NextMerge == ExtendCall

SpecMerge == InitMerge /\ [][NextMerge]_vars

\* the size extend() counts for a container: its size, or its item count
SizeOrCount(c) == IF ~IsNone(c.size) THEN c.size[2] ELSE Len(c.items)

\* C15: after A.extend(B) the offset is the minimum of the two offsets when
\* both are set and the one that is set when only one is; the size is A's size
\* (its item count if unset) before the merge plus B's size (its item count if
\* unset)
C15_MergedOffsetAndSize ==
    merge.n > 0 =>
        LET A == merge.before
            B == merge.other
        IN  /\ ~IsNone(A.offset) /\ ~IsNone(B.offset)
                  => merge.self.offset = PyInt(Min(A.offset[2], B.offset[2]))
            /\ ~IsNone(A.offset) /\ IsNone(B.offset) => merge.self.offset = A.offset
            /\ IsNone(A.offset) /\ ~IsNone(B.offset) => merge.self.offset = B.offset
            /\ merge.self.size = PyInt(SizeOrCount(A) + SizeOrCount(B))

\* a later, smaller offset wins; A counts by its size and B by its items
C15_Witness ==
    /\ merge.n = 2
    /\ merge.before.offset = PyInt(2) /\ merge.other.offset = PyInt(0)
    /\ merge.self.offset = PyInt(0)
    /\ merge.before.size = PyInt(3) /\ IsNone(merge.other.size)
    /\ Len(merge.other.items) = 1
    /\ merge.self.size = PyInt(4)

\* C16: a provenance field that is not None is not changed by a merge, and one
\* that is None takes the value of the merged container; this holds at every
\* merge of a sequence of extend calls
C16_ProvenanceFirstWriteWins ==
    merge.n > 0 =>
        \A key \in ProvenanceKeys :
            /\ ~IsNone(merge.before[key]) => merge.self[key] = merge.before[key]
            /\ IsNone(merge.before[key]) => merge.self[key] = merge.other[key]

\* the second merge offers other values for fields the first merge has set,
\* and a value for a field still None
C16_Witness ==
    /\ merge.n = 2
    /\ merge.before.identifier = PyStr("b") /\ merge.other.identifier = PyStr("a")
    /\ merge.self.identifier = PyStr("b")
    /\ merge.before.allowSync = PyInt(1) /\ merge.other.allowSync = PyInt(0)
    /\ merge.self.allowSync = PyInt(1)
    /\ IsNone(merge.before.librarySectionTitle)
    /\ merge.self.librarySectionTitle = PyStr("a")

-----------------------------------------------------------------------------
(* Properties of reload() with include overrides                             *)

\* reload(**kwargs) without a key argument returned normally on an object that
\* had a key and whose details path carries the default include parameters
ReloadedWithDefaults(kwargs) ==
    /\ last.op = "reload" /\ last.outcome = "ok"
    /\ last.arg = <<None, kwargs>>
    /\ HadKey
    /\ obj.details_key = buildDetailsKey(last.old.dict["key"], <<>>)

Override(p, value) == [k \in {p} |-> PyBool(value)]

\* C19: for an object with a key and default include parameters, the object is
\* FULL after reload(), PARTIAL after reload(includeMarkers=False) (a default
\* include switched off) and FULL after reload(checkFiles=True) (an extra
\* include switched on)
C19_ReloadOverrides ==
    /\ ReloadedWithDefaults(<<>>) => IsFull(obj)
    /\ ReloadedWithDefaults(Override("includeMarkers", FALSE)) => ~IsFull(obj)
    /\ ReloadedWithDefaults(Override("checkFiles", TRUE)) => IsFull(obj)

\* a FULL object made PARTIAL by reload(includeMarkers=False)
C19_Witness ==
    /\ ReloadedWithDefaults(Override("includeMarkers", FALSE))
    /\ last.old.full
    /\ ~IsFull(obj)
    /\ <<"includeMarkers", "1">> \notin ParseQsl(obj.initpath)
    /\ <<"includeMarkers", "1">> \in ParseQsl(obj.details_key)

-----------------------------------------------------------------------------
(* Specification of findItems without a class on a listing                   *)

MaxChildren == 5    \* the number of children of the listing

\* the children of the model by tag and type: registered by its dispatch key, by
\* its bare tag (with and without a type), not registered (by type, by tag)
Kinds ==
    {<<"Video", <<<<"type", PyStr("movie")>>>>, "2">>,
     <<"Video", <<>>, "2">>,
     <<"Video", <<<<"type", PyStr("clip")>>>>, "1">>,
     <<"Directory", <<<<"type", PyStr("artist")>>>>, "2">>,
     <<"Foo", <<>>, "2">>}

Child(kind, i) ==
    Element(kind[1], <<<<"ratingKey", DecStr(i)>>>> \o kind[2] \o <<<<"year", PyStr(kind[3])>>>>,
            <<>>)

Listings ==
    UNION {{[tag |-> "MediaContainer", attrib |-> <<>>,
             children |-> [i \in 1..n |-> Child(ks[i], i)]] : ks \in [1..n -> Kinds]} :
              n \in 0..MaxChildren}

InitFind ==
    /\ \E data \in Listings, kwargs \in FetchKwargs :
          find = [NoFind EXCEPT !.pc = "call", !.data = data, !.kwargs = kwargs]
    /\ ObjectIdle /\ QueryIdle /\ EditorIdle /\ FetchIdle /\ MergeIdle /\ BuildIdle /\ ChildIdle

\* items = self.findItems(data, **kwargs)
FindItemsCall ==
    /\ find.pc = "call"
    /\ LET r == findItems(find.data, find.kwargs)
       IN  find' = [find EXCEPT !.pc = "done", !.err = r.err, !.items = r.container.items]
    /\ UNCHANGED <<qvars, ovars, editor, fetch, merge, build, child>>

NextFind == FindItemsCall

SpecFind == InitFind /\ [][NextFind]_vars

\* the child satisfies the filters; its dispatch key or its bare tag is registered
Matches(c) == checkAttrs(c, find.kwargs) = "True"
IsRegistered(c) == ehash(c, ListingPath) \in PLEXOBJECTS \/ <<c.tag>> \in PLEXOBJECTS

\* C20: findItems without a class returns, in document order, exactly the
\* children that satisfy the filters and are registered by dispatch key or bare
\* tag; an unregistered child is skipped and no failure reaches the caller
C20_UnregisteredSkipped ==
    find.pc = "done" =>
        /\ ~find.err
        /\ find.items = SelectSeq(find.data.children, LAMBDA c : Matches(c) /\ IsRegistered(c))

\* five matching children of which one is unregistered give four objects
C20_Witness ==
    /\ find.pc = "done" /\ ~find.err
    /\ Len(find.data.children) = 5
    /\ \A i \in 1..5 : Matches(find.data.children[i])
    /\ Cardinality({i \in 1..5 : ~IsRegistered(find.data.children[i])}) = 1
    /\ Len(find.items) = 4

-----------------------------------------------------------------------------
(* Specification of _buildItem                                               *)

\* the elements of the model: four tags, each discriminating attribute absent or
\* present, the type also empty
BuildAttrs ==
    {st \o tt \o ty :
        st \in {<<>>, <<<<"streamType", PyStr("1")>>>>},
        tt \in {<<>>, <<<<"tagType", PyStr("2")>>>>},
        ty \in {<<>>, <<<<"type", PyStr("")>>>>, <<<<"type", PyStr("movie")>>>>,
                <<<<"type", PyStr("clip")>>>>}}

BuildElems == {Element(tag, a, <<>>) : tag \in {"Video", "Stream", "Tag", "Foo"}, a \in BuildAttrs}

\* the paths of the model: none, a library listing, the live-session listing
\* without and with a parameter, the history listing and a path under it
BuildPaths ==
    {None, ListingPath, SessionsPath, Path("/status/sessions", {<<"a", "1">>}),
     Path("/status/sessions/history", {}), HistoryPath}

InitBuild ==
    /\ \E elem \in BuildElems, cls \in {None, <<"class", "Movie">>},
          initpath \in BuildPaths, selfpath \in {None, ListingPath, SessionsPath} :
          build = [NoBuild EXCEPT !.pc = "call", !.elem = elem, !.cls = cls,
                                  !.initpath = initpath, !.selfpath = selfpath]
    /\ ObjectIdle /\ QueryIdle /\ EditorIdle /\ FetchIdle /\ MergeIdle /\ FindIdle /\ ChildIdle

\* self._buildItem(elem, cls, initpath)
BuildItemCall ==
    /\ build.pc = "call"
    /\ build' = [build EXCEPT !.pc = "done",
                   !.result = buildItem(build.selfpath, build.elem, build.cls, build.initpath)]
    /\ UNCHANGED <<qvars, ovars, editor, fetch, merge, find, child>>

NextBuild == BuildItemCall

SpecBuild == InitBuild /\ [][NextBuild]_vars

\* the context path of the call; the first present of streamType, tagType and
\* type; the dispatch key of the call, to which an empty attribute adds nothing
ContextPath == PathOr(build.initpath, build.selfpath)
Discriminator ==
    LET present == {n \in {"streamType", "tagType", "type"} : ElemAttr(build.elem, n) # None}
    IN  IF "streamType" \in present THEN ElemAttr(build.elem, "streamType")
        ELSE IF "tagType" \in present THEN ElemAttr(build.elem, "tagType")
        ELSE IF "type" \in present THEN ElemAttr(build.elem, "type")
        ELSE None
DispatchKey ==
    <<build.elem.tag>>
        \o (IF Discriminator \in {None, PyStr("")} THEN <<>> ELSE <<Discriminator[2]>>)
        \o (IF ContextPath = SessionsPath THEN <<"session">>
            ELSE IF ContextPath[2] \in HistoryPrefixed THEN <<"history">>
            ELSE <<>>)

\* C21: on a context path, _buildItem without an explicit class builds the class
\* registered under the dispatch key (tag, first present of streamType, tagType
\* and type, "session" on exactly the live-session listing, "history" under the
\* history listing), else the class registered under the bare tag, else raises
\* UnknownType; with an explicit class it builds that class without a lookup
C21_BuildItemDispatch ==
    (build.pc = "done" /\ IsPath(ContextPath)) =>
        IF ~IsNone(build.cls)
        THEN build.result = Built(build.cls, build.elem, ContextPath, 0)
        ELSE IF DispatchKey \in PLEXOBJECTS
        THEN build.result = Built(<<"registered", DispatchKey>>, build.elem, ContextPath, 1)
        ELSE IF <<build.elem.tag>> \in PLEXOBJECTS
        THEN build.result = Built(<<"registered", <<build.elem.tag>>>>, build.elem, ContextPath, 1)
        ELSE build.result = Raised("UnknownType", 1)

\* a Video with streamType 1 and type movie on the live-session listing of the
\* calling object: Video.1.session is not registered, the bare tag is
C21_Witness ==
    /\ build.pc = "done" /\ IsNone(build.cls) /\ IsNone(build.initpath)
    /\ build.selfpath = SessionsPath
    /\ build.elem.tag = "Video"
    /\ ElemAttr(build.elem, "streamType") = PyStr("1")
    /\ ElemAttr(build.elem, "type") = PyStr("movie")
    /\ DispatchKey = <<"Video", "1", "session">>
    /\ build.result.kind = "obj" /\ build.result.cls = <<"registered", <<"Video">>>>

-----------------------------------------------------------------------------
(* Specification of a session: an object built from an entry of the          *)
(* live-session listing, its reads and its reloads.                          *)

\* the entries of a sessions listing under the identity id: a sessionKey (one
\* of them with a leading zero), with and without title and children
SessionNodes(id) ==
    {[id |-> id,
      attrib |-> [key |-> KeyPath, title |-> tm[1], sourceURI |-> None, sessionKey |-> PyStr(k)],
      media |-> tm[2]] :
        k \in {"1", "2", "01"}, tm \in {<<None, FALSE>>, <<PyStr("a"), TRUE>>}}

\* the elements of a response are new objects: their identities differ from the
\* backing node's and from each other
FreshIds(o) == IF o.data.id = 0 THEN <<1, 2>> ELSE IF o.data.id = 1 THEN <<0, 2>> ELSE <<0, 1>>

\* the answers of the transport to the query of the listing: a failure, or a
\* container of up to two entries
SessionResponses(o) ==
    {[kind |-> "fail", children |-> <<>>], [kind |-> "ok", children |-> <<>>]}
    \cup {[kind |-> "ok", children |-> <<a>>] : a \in SessionNodes(FreshIds(o)[1])}
    \cup {[kind |-> "ok", children |-> <<a, b>>] :
              a \in SessionNodes(FreshIds(o)[1]), b \in SessionNodes(FreshIds(o)[2])}

InitSession ==
    /\ \E data \in SessionNodes(0), initpath \in {SessionsPath, Path("/status/sessions", {<<"a", "1">>})} :
          obj = Construct("MovieSession", data, initpath, TRUE)
    /\ userKeys = {}
    /\ last = [NoLast EXCEPT !.old = Before(obj)]
    /\ QueryIdle /\ EditorIdle /\ FetchIdle /\ MergeIdle /\ FindIdle /\ BuildIdle /\ ChildIdle

\* obj.reload() of a session; the record of the operation keeps the key queried,
\* the children of the response and, as its value, the number of loads
SessionReload(resp) ==
    /\ IsInstance(obj.cls, "PlexSession")
    /\ LET r == reloadSession(obj, resp)
       IN  /\ obj' = r.o
           /\ last' = Did("sessionReload", "", <<r.queried, resp.children>>, None,
                           PyInt(r.loads),
                           r.outcome, r.nq, r.o.data)
    /\ UNCHANGED <<userKeys, qvars, editor, fetch, merge, find, build, child>>

SessionReloadAny == \E resp \in SessionResponses(obj) : SessionReload(resp)

NextSession == ReadAny \/ SessionReloadAny

SpecSession == InitSession /\ [][NextSession]_vars

\* the element carries the sessionKey of the session: its attribute is the
\* string of the key the object holds
Carries(node, o) == node.attrib["sessionKey"] = StrOfKey(o.dict["sessionKey"])

\* C26: the reload of a session issues one query, of the path the session was
\* built from, and when the transport answers and no element of the answer
\* carries the sessionKey of the session, the object is returned as it was
\* (backing node, fields, constructing path and cached properties)
C26_SessionReloadWithoutMatch ==
    [][last'.op = "sessionReload" =>
          /\ last'.nq = 1
          /\ last'.arg[1] = obj.initpath
          /\ obj.initpath[2] = "/status/sessions"
          /\ (/\ last'.outcome # "TransportError"
              /\ \A i \in 1..Len(last'.arg[2]) : ~Carries(last'.arg[2][i], obj))
                => (last'.outcome = "ok" /\ obj' = obj)]_vars

\* a reload answered with two entries of other sessions, of a session whose
\* player has been read: the node and the player are those of before
C26_Witness ==
    /\ last.op = "sessionReload" /\ last.outcome = "ok" /\ last.nq = 1
    /\ Len(last.arg[2]) = 2
    /\ \A i \in 1..2 : ~Carries(last.arg[2][i], obj)
    /\ obj.memo["player"] # Missing /\ obj.memo = last.old.memo
    /\ obj.data.id = last.old.id /\ obj.dict = last.old.dict
    /\ last.arg[1] = SessionsPath /\ obj.initpath = SessionsPath

-----------------------------------------------------------------------------
(* Specification of _isChildOf on an object with a chain of ancestors        *)

MaxAncestors == 3   \* the number of ancestors of the object

\* the ancestors of the model: an object without and with year 2, a parent that
\* has been collected, and a MediaContainer with year 2 that holds no items
Ancestors ==
    {[alive |-> TRUE, truthy |-> TRUE, data |-> Element("Video", <<>>, <<>>)],
     [alive |-> TRUE, truthy |-> TRUE, data |-> Element("Video", <<<<"year", PyStr("2")>>>>, <<>>)],
     [alive |-> FALSE, truthy |-> TRUE, data |-> Element("Video", <<<<"year", PyStr("2")>>>>, <<>>)],
     [alive |-> TRUE, truthy |-> FALSE,
      data |-> Element("MediaContainer", <<<<"year", PyStr("2")>>>>, <<>>)]}

\* the kwargs of the model: none, one predicate, two predicates
ChildKwargs ==
    {<<>>,
     << <<<<"year">>, PyInt(2)>> >>,
     << <<<<"year">>, PyInt(2)>>, <<<<"etag">>, PyStr("Video")>> >>,
     << <<<<"genre">>, None>>, <<<<"year">>, PyInt(3)>> >>}

InitChild ==
    /\ \E n \in 0..MaxAncestors :
          \E chain \in [1..n -> Ancestors], kwargs \in ChildKwargs,
             self \in {a \in Ancestors : a.alive /\ a.data # Element("Video", <<>>, <<>>)} :
             child = [NoChild EXCEPT !.pc = "call", !.self = self, !.chain = chain,
                                     !.kwargs = kwargs]
    /\ ObjectIdle /\ QueryIdle /\ EditorIdle /\ FetchIdle /\ MergeIdle /\ FindIdle /\ BuildIdle

\* self._isChildOf(**kwargs)
IsChildOfCall ==
    /\ child.pc = "call"
    /\ child' = [child EXCEPT !.pc = "done",
                              !.result = isChildOf(child.self, child.chain, child.kwargs)]
    /\ UNCHANGED <<qvars, ovars, editor, fetch, merge, find, build>>

NextChild == IsChildOfCall

SpecChild == InitChild /\ [][NextChild]_vars

\* the i-th ancestor is reached by parent references that all resolve; the
\* node satisfies every predicate of the kwargs
Reachable(i) == \A j \in 1..i : child.chain[j].alive
SatisfiesAll(data) ==
    \A k \in 1..Len(child.kwargs) : checkAttrs(data, <<child.kwargs[k]>>) = "True"

\* C27: _isChildOf returns true iff some proper ancestor reached by parent
\* references that resolve satisfies all the predicates against its node (the
\* object itself is not tested; a missing or dead parent ends the walk)
C27_IsChildOfSomeAncestor ==
    child.pc = "done" =>
        ((child.result = "True") <=>
            \E i \in 1..Len(child.chain) : Reachable(i) /\ SatisfiesAll(child.chain[i].data))

\* what the code does: the walk also ends at an object or ancestor that is not
\* true as a condition, and an ancestor is tested with _checkAttrs, which
\* returns true at a key with operand None whose attribute is absent
IsChildOfWalk ==
    child.pc = "done" =>
        ((child.result = "True") <=>
            /\ child.self.truthy
            /\ \E i \in 1..Len(child.chain) :
                  /\ \A j \in 1..i : child.chain[j].alive /\ child.chain[j].truthy
                  /\ checkAttrs(child.chain[i].data, child.kwargs) = "True")

\* the walk passes two ancestors that do not satisfy the predicates and returns
\* true at the third
IsChildOfGrandparent ==
    /\ child.pc = "done" /\ child.result = "True" /\ Len(child.chain) = 3
    /\ Len(child.kwargs) = 2
    /\ \A j \in 1..2 : child.chain[j].alive /\ ~SatisfiesAll(child.chain[j].data)
    /\ SatisfiesAll(child.chain[3].data)

\* ---------------------------------------------------------------------------
\* The first-match operations: findItem on a listing, fetchItem on the server
\* ---------------------------------------------------------------------------

EKeys == {PyInt(1), PyStr("/library/sections/1/all")}

InitFirst == InitFetch \/ InitFind

\* item = self.findItem(data, **kwargs)
FindItemCall ==
    /\ find.pc = "call"
    /\ find' = [find EXCEPT !.pc = "done", !.first = findItem(find.data, find.kwargs)]
    /\ UNCHANGED <<qvars, ovars, editor, fetch, merge, build, child>>

\* self.fetchItem(ekey, **kwargs) up to the first request of its fetchItems call;
\* the paging arguments travel in kwargs
FetchItemCall ==
    /\ fetch.pc = "call"
    /\ \E ekey \in EKeys :
          fetch' = fetchItemsEnter([fetch EXCEPT !.ekey = fetchItemKey(ekey)])
    /\ UNCHANGED <<qvars, ovars, editor, merge, find, build, child>>

\* fetchItems has returned: fetchItem takes element 0 or raises NotFound
FetchItemReturn ==
    /\ fetch.pc = "done"
    /\ fetch' = [fetch EXCEPT !.pc = "returned", !.first = fetchItemFirst(fetch)]
    /\ UNCHANGED <<qvars, ovars, editor, merge, find, build, child>>

NextFirst == FindItemCall \/ FetchItemCall \/ FetchPage \/ FetchItemReturn

SpecFirst == InitFirst /\ [][NextFirst]_vars

\* the children of the listing that findItem can return, in document order
Candidates == SelectSeq(find.data.children, LAMBDA c : Matches(c) /\ Builds(c))

FoundFirst == find.pc = "done" /\ find.first.kind # "none"

\* C28: findItem returns the first matching child that materializes and None
\* when there is none; fetchItem returns element 0 of what fetchItems returned
\* and raises NotFound with the class name and its kwargs when that is empty
C28_FirstMatch ==
    /\ (FoundFirst /\ find.first.kind # "error") =>
          IF Candidates = <<>> THEN find.first = ReturnsNone
          ELSE find.first.kind = "item" /\ find.first.item = Candidates[1]
    /\ fetch.pc = "returned" =>
          IF fetch.results.items = <<>>
          THEN /\ fetch.first.kind = "NotFound"
               /\ fetch.first.cls = "None"
               /\ fetch.first.attrs.filters = fetch.kwargs
               /\ fetch.first.attrs.paging = fetch.args
          ELSE fetch.first.kind = "item" /\ fetch.first.item = fetch.results.items[1]

\* findItem skipped a child that does not match and returned the first of two
\* different candidates
C28_Witness ==
    /\ FoundFirst /\ find.first.kind = "item"
    /\ ~Matches(find.data.children[1])
    /\ Len(Candidates) >= 2 /\ Candidates[1] # Candidates[Len(Candidates)]

\* findItem found nothing in a listing that has children
FindItemNone == FoundFirst /\ find.first = ReturnsNone /\ find.data.children # <<>>

\* fetchItem found nothing on a server that has items, after more than one request
FetchItemNotFound ==
    /\ fetch.pc = "returned" /\ fetch.first.kind = "NotFound"
    /\ fetch.kwargs # <<>> /\ Len(fetch.reqs) >= 2

\* fetchItem returned the first of several items fetched in more than one request
FetchItemFirst ==
    /\ fetch.pc = "returned" /\ fetch.first.kind = "item"
    /\ Len(fetch.results.items) >= 2 /\ Len(fetch.reqs) >= 2

\* ---------------------------------------------------------------------------
\* Termination of fetchItems: the loop as a running computation
\* ---------------------------------------------------------------------------

\* the filters of the calls: none, one that keeps the even items, one that keeps none
LoopKwargs == FetchKwargs \cup {<< <<<<"year">>, PyInt(3)>> >>}

\* before the call
InitLoop ==
    /\ FetchIdle
    /\ ObjectIdle /\ QueryIdle /\ EditorIdle /\ MergeIdle /\ FindIdle /\ BuildIdle /\ ChildIdle

\* self.fetchItems(ekey, None, container_start, container_size, maxresults, **kwargs)
\* is called on some server
FetchItemsCalled ==
    /\ fetch.pc = "idle"
    /\ \E total \in Totals, size \in SizeArgs, start \in StartArgs,
          maxresults \in MaxResultsArgs, kwargs \in LoopKwargs,
          hasTotal \in BOOLEAN, hasSize \in BOOLEAN :
          fetch' = [NoFetch EXCEPT !.pc = "call", !.server = ServerOf(total),
                                   !.hasTotal = hasTotal, !.hasSize = hasSize,
                                   !.kwargs = kwargs, !.maxresults = maxresults,
                                   !.container_start = start, !.container_size = size,
                                   !.args = <<start, size, maxresults>>]
    /\ UNCHANGED <<qvars, ovars, editor, merge, find, build, child>>

NextLoop == FetchItemsCalled \/ FetchItemsCall \/ FetchPage

\* the call is sequential code: a started call enters the loop, and inside the
\* loop the next iteration runs
SpecLoop ==
    InitLoop /\ [][NextLoop]_vars /\ WF_vars(FetchItemsCall) /\ WF_vars(FetchPage)


\* an iteration after which the loop goes on
Continues == fetch.pc = "loop" /\ fetch'.pc = "loop"

\* C29: a call of fetchItems makes at most one request more than the server has
\* elements; after an iteration that continues the page size is at least 1 and
\* the start is greater than before and not beyond the elements of the server,
\* so that only finitely many iterations can continue
C29_LoopTerminates ==
    /\ [](Len(fetch.reqs) <= Len(fetch.server) + 1)
    /\ [][Continues => /\ fetch'.container_size[2] >= 1
                       /\ fetch'.container_start[2] > fetch.container_start[2]
                       /\ fetch'.container_start[2] <= Len(fetch.server)]_vars

\* a call whose filter dropped every item returned after three requests or more,
\* under a maxresults smaller than what the server holds
C29_Witness ==
    /\ fetch.pc = "done" /\ Len(fetch.reqs) >= 3
    /\ fetch.kwargs = << <<<<"year">>, PyInt(3)>> >>
    /\ fetch.results.items = <<>>
    /\ ~IsNone(fetch.maxresults) /\ fetch.maxresults[2] < Len(fetch.server)

\* a call returned after maxresults had shrunk the page between two requests
LoopShrankPage ==
    /\ fetch.pc = "done" /\ Len(fetch.reqs) >= 3
    /\ fetch.reqs[Len(fetch.reqs)][2] < fetch.reqs[1][2]

\* ---------------------------------------------------------------------------
\* The pages of one fetchItems call
\* ---------------------------------------------------------------------------

\* the server indexes the i-th request asks for, and the index of an item
Requested(i) == (fetch.reqs[i][1] + 1)..(fetch.reqs[i][1] + fetch.reqs[i][2])
ServerIndex(item) == DigitsValue(AttribLookup(item, "ratingKey")[1][2])

\* C30: every request after the first starts where the previous one ended, no
\* index is requested twice, none between the first and the last request is
\* skipped, and the items of the container are in increasing server order
C30_PagesContiguous ==
    /\ \A i \in 2..Len(fetch.reqs) :
          fetch.reqs[i][1] = fetch.reqs[i - 1][1] + fetch.reqs[i - 1][2]
    /\ \A i, j \in 1..Len(fetch.reqs) : i < j => Requested(i) \cap Requested(j) = {}
    /\ fetch.reqs # <<>> =>
          UNION {Requested(i) : i \in 1..Len(fetch.reqs)} =
              (fetch.reqs[1][1] + 1)..
                  (fetch.reqs[Len(fetch.reqs)][1] + fetch.reqs[Len(fetch.reqs)][2])
    /\ \A i, j \in 1..Len(fetch.results.items) :
          i < j => ServerIndex(fetch.results.items[i]) < ServerIndex(fetch.results.items[j])

\* a filtered call returned items of several pages after maxresults had shrunk
\* the page between two requests
C30_Witness ==
    /\ fetch.pc = "done" /\ Len(fetch.reqs) >= 3
    /\ fetch.reqs[Len(fetch.reqs)][2] < fetch.reqs[1][2]
    /\ fetch.kwargs # <<>> /\ Len(fetch.results.items) >= 3
    /\ fetch.reqs[1][1] > 0

\* ---------------------------------------------------------------------------
\* Filter evaluation: the values of a child path
\* ---------------------------------------------------------------------------

\* the values a path denotes on a node: the attribute of the node for a path of
\* one segment, else the values of the remaining path on every direct child
\* with the tag of the first segment, in document order
RECURSIVE ValuesAt(_, _)
RECURSIVE ValuesBelow(_, _, _)
ValuesBelow(children, i, path) ==
    IF i > Len(children) THEN <<>>
    ELSE (IF Lower(children[i].tag) = Lower(Head(path))
          THEN ValuesAt(children[i], Tail(path)) ELSE <<>>)
         \o ValuesBelow(children, i + 1, path)

ValuesAt(elem, path) ==
    IF Len(path) = 1
    THEN (IF Lower(path[1]) = "etag" THEN <<PyStr(elem.tag)>> ELSE AttribLookup(elem, path[1]))
    ELSE ValuesBelow(elem.children, 1, path)

\* the paths of the keys of the call that go through child tags
ChildPaths ==
    {getAttrOperator(qKwargs[i][1]).attr : i \in 1..Len(qKwargs)} \cap
        {path \in Seq({"Media", "Part", "file", "videoCodec", "videoResolution"}) :
            Len(path) \in 2..3}

\* C31: for a path with child segments _getAttrValue returns the values of the
\* reached descendants that carry the attribute, in document order, each once
C31_ChildPathValues ==
    qRes # "pending" =>
        \A path \in ChildPaths : getAttrValue(qElem, path) = ValuesAt(qElem, path)

\* the same for the paths with exactly one child segment
OneChildSegmentValues ==
    qRes # "pending" =>
        \A path \in ChildPaths :
            Len(path) = 2 => getAttrValue(qElem, path) = ValuesAt(qElem, path)

\* a path with one child segment gave the values of two children
OneChildSegmentTwoValues ==
    /\ qRes # "pending"
    /\ \E path \in ChildPaths : Len(path) = 2 /\ Len(getAttrValue(qElem, path)) = 2

\* ---------------------------------------------------------------------------
\* Filter evaluation: the order of the keys
\* ---------------------------------------------------------------------------

\* the pairs of the call in the opposite iteration order
Reversed(kwargs) == [i \in 1..Len(kwargs) |-> kwargs[Len(kwargs) + 1 - i]]

\* C34: _checkAttrs gives the same boolean for the same pairs in another order
C34_OrderIndependent ==
    qRes # "pending" => checkAttrs(qElem, Reversed(qKwargs)) = qRes

\* the same when the two keys name different attributes and neither raises
DisjointKeysOrderIndependent ==
    (/\ qRes # "pending" /\ Len(qKwargs) = 2
     /\ getAttrOperator(qKwargs[1][1]).attr # getAttrOperator(qKwargs[2][1]).attr
     /\ \A i \in 1..2 : checkAttrs(qElem, <<qKwargs[i]>>) # "Error")
        => checkAttrs(qElem, Reversed(qKwargs)) = qRes

\* ---------------------------------------------------------------------------
\* The element a session reload loads
\* ---------------------------------------------------------------------------

\* the entries of the response of the last session reload that carry the
\* sessionKey of the session, in document order
Carrying == SelectSeq(last.arg[2], LAMBDA node : Carries(node, obj))

SessionReloaded == last.op = "sessionReload" /\ last.outcome = "ok"

\* C32: after _findAndLoadElem the backing node is the first element that
\* satisfies the predicates, and at most one load has been performed
C32_LoadsFirstMatch ==
    SessionReloaded =>
        /\ last.value[2] <= 1
        /\ Carrying # <<>> => obj.data = Carrying[1]

\* what holds instead: every matching element is loaded in turn, and the
\* backing node is the last of them
LoadsEveryMatch ==
    SessionReloaded =>
        /\ last.value[2] = Len(Carrying)
        /\ Carrying # <<>> => obj.data = Carrying[Len(Carrying)]

\* two entries matched: two loads, and the title is that of the second entry
LoadedTwice ==
    /\ SessionReloaded /\ Len(Carrying) = 2 /\ last.value = PyInt(2)
    /\ Carrying[1].attrib["title"] # Carrying[2].attrib["title"]
    /\ obj.data = Carrying[2] /\ obj.dict["title"] = Carrying[2].attrib["title"]

\* ---------------------------------------------------------------------------
\* Reloads that fail, and the overwrite-None flag
\* ---------------------------------------------------------------------------

\* the query of the last read or reload failed in the transport
TransportFailed == last.op \in {"read", "reload"} /\ last.outcome = "TransportError"

\* the fields, the backing node and the cached values set before are as before
SameContents ==
    /\ obj.dict = last.old.dict
    /\ obj.data.id = last.old.id
    /\ \A p \in DOMAIN obj.memo : last.old.memo[p] # Missing => obj.memo[p] = last.old.memo[p]

\* C33: a reload whose query fails leaves the object as it was: PARTIAL or FULL
\* as before, with the backing node, the fields and the cached values of before
C33_FailedReloadLeavesObject ==
    TransportFailed => (IsFull(obj) = last.old.full /\ SameContents)

\* what holds instead: the contents are those of before, and the constructing
\* path is the key of the failed query, whatever it was before
FailedReloadKeepsContents ==
    TransportFailed =>
        /\ SameContents
        /\ PathTruthy(obj.initpath)
        /\ last.op = "read" =>
              obj.initpath = PathOr(obj.details_key, KeyOf(obj))

\* a PARTIAL object became FULL by an automatic reload whose query failed
FailedReloadMadeFull ==
    /\ TransportFailed /\ last.op = "read"
    /\ ~last.old.full /\ IsFull(obj)

\* an automatic reload answered with a node
AutoReloaded == last.op = "read" /\ last.nq = 1 /\ last.outcome = "ok" /\ last.node # NoNode

\* C36: an automatic reload never sets a public field that held a value to
\* None: the field keeps its value when the node has none for it, and takes the
\* value of the node otherwise
C36_AutoReloadKeepsValues ==
    AutoReloaded =>
        \A f \in FieldNames :
            NonNull(last.old.dict[f]) =>
                obj.dict[f] = IF IsNone(last.node.attrib[f]) THEN last.old.dict[f]
                              ELSE last.node.attrib[f]

\* the title assigned by the caller survived an automatic reload whose node had
\* no title
C36_Witness ==
    /\ AutoReloaded
    /\ last.old.dict["title"] = PyStr("b")
    /\ IsNone(last.node.attrib["title"])
    /\ obj.dict["title"] = PyStr("b")

\* the title assigned by the caller was replaced by the title of the node
AutoReloadTookValue ==
    /\ AutoReloaded
    /\ last.old.dict["title"] = PyStr("b")
    /\ obj.dict["title"] = PyStr("a") /\ last.node.attrib["title"] = PyStr("a")

\* C37: between the operations the flag _overwriteNone is True
C37_OverwriteNoneRestored == obj.overwriteNone = TRUE

\* what holds instead: the flag is True unless the last automatic reload was
\* answered with a container without children, and it is True again after the
\* next reload that loads a node
OverwriteNoneUnlessEmptyAnswer ==
    /\ (last.op = "read" /\ last.outcome = "IndexError") => obj.overwriteNone = FALSE
    /\ (last.op \in {"read", "reload"} /\ last.outcome \in {"ok", "TransportError"} /\ last.nq = 1)
          => (obj.overwriteNone = TRUE \/ last.outcome = "TransportError")
    /\ (last.op = "reload" /\ last.nq = 1 /\ last.outcome # "TransportError")
          => obj.overwriteNone = TRUE

\* with the flag left False the caller's `obj.title = None` is not applied
FlagLeftOffBlocksAssign ==
    /\ last.op = "assign" /\ IsNone(last.arg) /\ ~obj.overwriteNone
    /\ NonNull(last.old.dict["title"]) /\ obj.dict["title"] = last.old.dict["title"]

\* ---------------------------------------------------------------------------
\* Requests beyond the reported range
\* ---------------------------------------------------------------------------

\* the start of the i-th request against the total size resolved from the
\* response to the request before it
StartOf(i) == fetch.reqs[i][1]
TotalBefore(i) == fetch.totals[i - 1]
Later == {i \in 2..Len(fetch.reqs) : i - 1 <= Len(fetch.totals)}

\* C35: after the first request, no request starts at or beyond the total size
\* resolved from the preceding response
C35_NoRequestBeyondTotal == \A i \in Later : StartOf(i) < TotalBefore(i)

\* what holds instead: no later request starts beyond the total size, and none
\* starts at it when the call has no filters
NoRequestPastTotal ==
    \A i \in Later :
        /\ StartOf(i) <= TotalBefore(i)
        /\ fetch.kwargs = <<>> => StartOf(i) < TotalBefore(i)

\* a second request started at the total size: the filter had dropped an item of
\* the first page, which held every element
RequestedAtTotal ==
    /\ Len(fetch.reqs) = 2 /\ Len(fetch.totals) = 2
    /\ fetch.reqs[1][1] = 0
    /\ StartOf(2) = TotalBefore(2) /\ TotalBefore(2) > 0
    /\ fetch.kwargs # <<>>

====
